---- MODULE Spec2Model ----
(***************************************************************************)
(* Verification model of the markdown resume -> ATS document converter     *)
(* (src/src/resume_md_to_docx.py).                                         *)
(*                                                                         *)
(* The parsed markdown is a sequence of sibling nodes (the top level of    *)
(* the BeautifulSoup tree); the output document is, per container (the     *)
(* document body or one of the table cells of the two-column layout), the  *)
(* sequence of block elements appended so far.                             *)
(***************************************************************************)
EXTENDS Integers, Sequences, FiniteSets, TLC

VARIABLES
    fileState,      \* configuration file: "ok", "missing" or "malformed"
    yamlDefaults,   \* keys of document_defaults present in the file
    yamlSections,   \* resume_sections of the file, in declaration order
    config,         \* ConfigLoader._config once loaded
    twoCol,         \* document_defaults.two_column_enabled (file or -t flag)
    md,             \* top-level sibling nodes of the parsed markdown
    faulty,         \* sections whose content makes their formatter raise
    out,            \* container -> sequence of appended block elements
    pc,             \* "load", "start", "run", "done", "raised"
    plan,           \* the processors create_ats_resume will invoke, in order
    idx,            \* index of the next processor in plan
    saves,          \* number of document.save calls so far
    ran,            \* section formatters invoked so far, in order
    raisedBy,       \* what raised the exception that left create_ats_resume
    arg,            \* input of the helper function under check
    res,            \* its result
    fpc             \* "ready" / "done" for the helper function under check

vars == <<fileState, yamlDefaults, yamlSections, config, twoCol, md, faulty,
          out, pc, plan, idx, saves, ran, raisedBy, arg, res, fpc>>

mainVars == <<fileState, yamlDefaults, yamlSections, config, twoCol, md,
              faulty, out, pc, plan, idx, saves, ran, raisedBy>>

funVars == <<arg, res, fpc>>

----------------------------------------------------------------------------
(* Bounds of the model                                                     *)

MaxCfg == 2        \* sections declared in resume_sections
MaxMd == 2         \* h2 sections in the markdown
MaxHr == 1         \* sections preceded by a horizontal rule
MaxFaulty == 1     \* sections whose content makes a formatter raise
MaxSib == 3        \* siblings in front of the h2 handed to _prepare_section
MaxPieces == 3     \* pieces a text handed to the hyperlink pass is made of
MaxChildren == 3   \* child nodes of a list item
MaxSkillPieces == 4 \* pieces a skills text is made of
MaxExpNodes == 4   \* siblings under the Experience h2

----------------------------------------------------------------------------
(* Generic helpers                                                         *)

Range(s) == {s[i] : i \in 1..Len(s)}

SeqsUpTo(S, n) == UNION {[1..m -> S] : m \in 0..n}

Injective(s) == \A i, j \in 1..Len(s) : s[i] = s[j] => i = j

Min(S) == CHOOSE x \in S : \A y \in S : x <= y

IndexOf(s, x) == IF x \in Range(s) THEN Min({i \in 1..Len(s) : s[i] = x}) ELSE 0

RECURSIVE SelectSeq2(_, _)
\* the subsequence of s whose elements are in S
SelectSeq2(s, S) ==
    IF s = <<>> THEN <<>>
    ELSE (IF Head(s) \in S THEN <<Head(s)>> ELSE <<>>) \o SelectSeq2(Tail(s), S)

----------------------------------------------------------------------------
(* Section descriptors and configuration                                   *)

\* the section keys create_ats_resume looks up with ResumeSection.get_section
Keys == {"about", "skills", "experience", "projects", "certifications",
         "education", "contact"}

\* the document_defaults keys create_ats_resume reads without a default
DocKeys == {"page_width", "page_height", "margin_top", "margin_bottom",
            "margin_left", "margin_right"}

\* ConfigLoader.__init__: the default structure, overwritten by what the file
\* holds when the file exists and parses
DefaultConfig == [document_defaults |-> {}, resume_sections |-> <<>>]

LoadedConfig(state, defaults, sections) ==
    IF state = "ok"
    THEN [document_defaults |-> defaults, resume_sections |-> sections]
    ELSE DefaultConfig

\* ResumeSection.init_from_config + get_ordered_sections: declaration order
get_ordered_sections(cfg) == cfg.resume_sections

get_section(cfg, key) == key \in Range(cfg.resume_sections)

----------------------------------------------------------------------------
(* The parsed markdown                                                     *)

Node(tag, text) == [tag |-> tag, text |-> text]

\* the tag of the one content block a section of the sample resumes holds
ContentTag(k) ==
    IF k \in {"experience", "projects", "certifications"} THEN "h3" ELSE "p"

RECURSIVE SectionNodes(_, _)
SectionNodes(secs, hrs) ==
    IF secs = <<>> THEN <<>>
    ELSE LET k == Head(secs) IN
         (IF k \in hrs THEN <<Node("hr", "")>> ELSE <<>>)
         \o <<Node("h2", k), Node(ContentTag(k), k)>>
         \o SectionNodes(Tail(secs), hrs)

HeaderNodes(hasH1) ==
    IF hasH1 THEN <<Node("h1", "name"), Node("p", "tagline")>> ELSE <<>>

Markdown(hasH1, secs, hrs) == HeaderNodes(hasH1) \o SectionNodes(secs, hrs)

\* soup.find("h2", string=section.matches): the first matching h2, 0 if none
FindH2(nodes, k) ==
    LET hits == {i \in 1..Len(nodes) : nodes[i].tag = "h2" /\ nodes[i].text = k}
    IN IF hits = {} THEN 0 ELSE Min(hits)

\* index of the next h2 sibling after i (Len + 1 when there is none)
NextH2(nodes, i) ==
    LET hits == {j \in (i + 1)..Len(nodes) : nodes[j].tag = "h2"}
    IN IF hits = {} THEN Len(nodes) + 1 ELSE Min(hits)

HasH1(nodes) == \E i \in 1..Len(nodes) : nodes[i].tag = "h1"

RECURSIVE PrevSkipping(_, _)
\* _has_hr_before_element: walk previous_sibling while the node has no name
\* (a text node of any content) or is a br
PrevSkipping(nodes, i) ==
    IF i = 0 THEN 0
    ELSE IF nodes[i].tag \in {"#text", "#ws", "br"} THEN PrevSkipping(nodes, i - 1)
    ELSE i

_has_hr_before_element(nodes, i) ==
    LET p == PrevSkipping(nodes, i - 1)
    IN p # 0 /\ nodes[p].tag = "hr"

----------------------------------------------------------------------------
(* Output elements                                                         *)

\* kind: what was appended; sec: the processor that appended it; src: index of
\* the markdown node it renders (0 when synthesised); brk: a page break was
\* added to its last run; restyled: _apply_styles_to_cell_content wrote a
\* style's font and paragraph properties over the ones it was appended with
El(kind, sec, src) ==
    [kind |-> kind, sec |-> sec, src |-> src, brk |-> FALSE, restyled |-> FALSE]

Containers == {"doc", "about", "contact", "sidebar", "main"}

EmptyOut == [c \in Containers |-> <<>>]


----------------------------------------------------------------------------
(* Section locator and page-break detection                                *)

\* document.paragraphs[-1]: the last paragraph directly in the container; a
\* table (and the paragraphs inside its cells) is not in document.paragraphs
LastParagraph(o) ==
    LET ps == {i \in 1..Len(o) : o[i].kind # "table"}
    IN IF ps = {} THEN 0 ELSE CHOOSE i \in ps : \A j \in ps : j <= i

\* lines 2209-2227 of _prepare_section: the page break goes into the last
\* paragraph of the container when it has one, else into a new paragraph
AddPageBreak(o, k) ==
    IF LastParagraph(o) # 0
    THEN [o EXCEPT ![LastParagraph(o)].brk = TRUE]
    ELSE Append(o, [El("break", k, 0) EXCEPT !.brk = TRUE])

\* _prepare_section: [doc: the container afterwards, h2: index of the section
\* heading in the markdown, 0 when the section is absent]
_prepare_section(o, nodes, k) ==
    LET h2 == FindH2(nodes, k) IN
    IF h2 = 0 THEN [doc |-> o, h2 |-> 0]
    ELSE LET o1 == IF _has_hr_before_element(nodes, h2) THEN AddPageBreak(o, k) ELSE o
         IN [doc |-> Append(o1, El("heading", k, h2)), h2 |-> h2]

----------------------------------------------------------------------------
(* Section processors, at the level of the blocks they append              *)

RECURSIVE RenderRange(_, _, _, _, _)
\* one element per sibling in i..(stop - 1) whose tag is in tags
RenderRange(nodes, i, stop, tags, k) ==
    IF i >= stop THEN <<>>
    ELSE (IF nodes[i].tag \in tags THEN <<El("content", k, i)>> ELSE <<>>)
         \o RenderRange(nodes, i + 1, stop, tags, k)

\* the sibling walk of each process_*_section from the h2 to the next h2
SectionContent(nodes, h2, k) ==
    LET stop == NextH2(nodes, h2) IN
    CASE k \in {"about", "education", "contact"} ->
            RenderRange(nodes, h2 + 1, stop, {"p", "ul"}, k)
      [] k = "skills" ->
            IF h2 + 1 < stop /\ nodes[h2 + 1].tag = "p"
            THEN <<El("content", k, h2 + 1)>> ELSE <<>>
      [] OTHER -> RenderRange(nodes, h2 + 1, stop, {"h3"}, k)

\* process_<k>_section(document, soup): absent section -> nothing appended; a
\* formatter that raises does so after _prepare_section appended the heading
RunFormatter(o, nodes, k, bad) ==
    LET prep == _prepare_section(o, nodes, k) IN
    IF prep.h2 = 0 THEN [doc |-> o, raised |-> FALSE]
    ELSE IF k \in bad THEN [doc |-> prep.doc, raised |-> TRUE]
    ELSE [doc |-> prep.doc \o SectionContent(nodes, prep.h2, k), raised |-> FALSE]

\* process_header_section without header image: title, tagline, rule
HeaderElements(nodes) ==
    LET h1 == Min({i \in 1..Len(nodes) : nodes[i].tag = "h1"}) IN
    <<El("title", "header", h1)>>
    \o (IF h1 < Len(nodes) /\ nodes[h1 + 1].tag = "p"
        THEN <<El("tagline", "header", h1 + 1)>> ELSE <<>>)
    \o <<El("line", "header", 0)>>

\* _process_contact_info_horizontal: one centred paragraph when the h2 exists
RibbonElements(nodes) ==
    IF FindH2(nodes, "contact") = 0 THEN <<>>
    ELSE <<El("ribbon", "contact", FindH2(nodes, "contact"))>>

----------------------------------------------------------------------------
(* create_ats_resume: the processors it will run                           *)

Proc(op, key, cell, required) ==
    [op |-> op, key |-> key, cell |-> cell, required |-> required]

\* the order in which lines 843-879 fill section_processor_map
MapOrder == <<"about", "skills", "experience", "projects", "certifications",
              "education", "contact">>

\* a variant that runs the processors in the order of the map's keys
SingleColumnPlanInMapOrder(order) ==
    LET RECURSIVE build(_)
        build(s) ==
            IF s = <<>> THEN <<>>
            ELSE (IF Head(s) = "about"
                  THEN <<Proc("header", "header", "doc", TRUE),
                         Proc("section", "about", "doc", FALSE)>>
                  ELSE <<Proc("section", Head(s), "doc", FALSE)>>)
                 \o build(Tail(s))
    IN build(SelectSeq2(MapOrder, Range(order)))

RECURSIVE SingleColumnPlan(_)
\* lines 843-891: section_processor_map looked up in get_ordered_sections order
SingleColumnPlan(order) ==
    IF order = <<>> THEN <<>>
    ELSE LET k == Head(order) IN
         (IF k = "about"
          THEN <<Proc("header", "header", "doc", TRUE),
                 Proc("section", "about", "doc", FALSE)>>
          ELSE <<Proc("section", k, "doc", FALSE)>>)
         \o SingleColumnPlan(Tail(order))

\* lines 754-840: the fixed sequence of the two-column branch
TwoColumnPlan(cfg) ==
    LET has(k) == get_section(cfg, k)
        line(c) == <<Proc("line", "sep", c, FALSE)>>
        sec(k, c) == <<Proc("section", k, c, FALSE)>>
        \* sidebar_sections[-1] and first_sidebar_section before each block
        firstBeforeCert == ~has("skills")
        firstBeforeEdu == ~has("skills") /\ ~has("certifications")
        skills ==
            IF has("skills")
            THEN sec("skills", "sidebar")
                 \o (IF has("certifications") \/ has("education")
                     THEN line("sidebar") ELSE <<>>)
            ELSE <<>>
        \* line 791-794: sidebar_sections[-1] is the skills heading here
        certs ==
            IF has("certifications")
            THEN sec("certifications", "sidebar")
                 \o (IF has("education") THEN line("sidebar") ELSE <<>>)
            ELSE <<>>
        \* line 807-810 reads certifications_section.docx_heading
        edu ==
            IF has("education")
            THEN (IF ~firstBeforeEdu /\ ~has("certifications")
                  THEN <<Proc("crash", "sidebar", "sidebar", TRUE)>>
                  ELSE <<>>)
                 \o sec("education", "sidebar")
            ELSE <<>>
        exp == IF has("experience") THEN sec("experience", "main") ELSE <<>>
        proj ==
            IF has("projects")
            THEN (IF has("experience") THEN line("main") ELSE <<>>)
                 \o sec("projects", "main")
            ELSE <<>>
    IN <<Proc("header", "header", "doc", TRUE), Proc("layout", "layout", "doc", TRUE)>>
       \o (IF has("contact") THEN <<Proc("ribbon", "contact", "contact", FALSE)>> ELSE <<>>)
       \o (IF has("about") THEN sec("about", "about") ELSE <<>>)
       \o skills \o certs \o edu \o exp \o proj
       \o <<Proc("styles", "styles", "doc", FALSE)>>

PlanFor(cfg, two) ==
    IF two THEN TwoColumnPlan(cfg) ELSE SingleColumnPlan(get_ordered_sections(cfg))


----------------------------------------------------------------------------
(* Inputs                                                                  *)

CfgSeqs == {s \in SeqsUpTo(Keys, MaxCfg) : Injective(s)}

\* the h2 sections of a sample resume: some of the configured ones, any order
MdSections(sections) ==
    {s \in SeqsUpTo(Range(sections), MaxMd) : Injective(s)}

SubsetsUpTo(S, n) == {T \in SUBSET S : Cardinality(T) <= n}

SampleMd == Markdown(TRUE, <<"about">>, {})

\* a configuration file that loads and sets every document default
InitLoaded ==
    /\ fileState = "ok"
    /\ yamlDefaults = DocKeys
    /\ yamlSections \in CfgSeqs
    /\ twoCol \in BOOLEAN
    /\ \E hasH1 \in BOOLEAN, secs \in MdSections(yamlSections) :
         \E hrs \in SubsetsUpTo(Range(secs), MaxHr) :
            md = Markdown(hasH1, secs, hrs)
    /\ faulty \in SubsetsUpTo({k \in Keys : FindH2(md, k) # 0}, MaxFaulty)

\* no file, an unparsable file, or a file leaving document defaults out
InitFallback ==
    /\ \/ /\ fileState \in {"missing", "malformed"}
          /\ yamlDefaults = {}
          /\ yamlSections = <<>>
       \/ /\ fileState = "ok"
          /\ yamlDefaults \in {DocKeys \ {"page_width"}, DocKeys \ {"margin_right"}, {}}
          /\ yamlSections \in {<<>>, <<"about">>}
    /\ twoCol \in BOOLEAN
    /\ md = SampleMd
    /\ faulty = {}

FunIdle == arg = <<>> /\ res = <<>> /\ fpc = "idle"

\* the state after ConfigLoader(config_file) was constructed
Init ==
    /\ InitLoaded \/ InitFallback
    /\ config = LoadedConfig(fileState, yamlDefaults, yamlSections)
    /\ out = EmptyOut
    /\ pc = "start"
    /\ plan = <<>>
    /\ idx = 0
    /\ saves = 0
    /\ ran = <<>>
    /\ raisedBy = "none"
    /\ FunIdle

----------------------------------------------------------------------------
(* create_ats_resume, step by step                                         *)

inputVars == <<fileState, yamlDefaults, yamlSections, config, twoCol, md, faulty>>

\* lines 893-903 catch what a processor raises unless it is required; the
\* two-column branch (lines 754-840) calls its processors with no handler
Caught(p, two) == ~two /\ ~p.required

\* lines 839-840 and 1721-1780: every paragraph with text in the four cells
\* of the layout gets the detected style applied to its runs and format
RestyleCells(o) ==
    [c \in Containers |->
        IF c = "doc" THEN o[c]
        ELSE [i \in 1..Len(o[c]) |->
                 IF o[c][i].kind \in {"line", "break", "table"} THEN o[c][i]
                 ELSE [o[c][i] EXCEPT !.restyled = TRUE]]]

\* what processor p does to the containers o, and what it lets escape
StepEffect(p, o, nodes, bad, two) ==
    CASE p.op = "header" ->
            IF HasH1(nodes)
            THEN [out |-> [o EXCEPT ![p.cell] = @ \o HeaderElements(nodes)],
                  raised |-> "none"]
            ELSE [out |-> o, raised |-> "header"]
      [] p.op = "ribbon" ->
            [out |-> [o EXCEPT ![p.cell] = @ \o RibbonElements(nodes)],
             raised |-> "none"]
      [] p.op = "section" ->
            LET r == RunFormatter(o[p.cell], nodes, p.key, bad) IN
            [out |-> [o EXCEPT ![p.cell] = r.doc],
             raised |-> IF r.raised /\ ~Caught(p, two) THEN p.key ELSE "none"]
      [] p.op = "line" ->
            [out |-> [o EXCEPT ![p.cell] = Append(@, El("line", "sep", 0))],
             raised |-> "none"]
      [] p.op = "crash" -> [out |-> o, raised |-> "sidebar"]
      [] p.op = "styles" -> [out |-> RestyleCells(o), raised |-> "none"]
      [] OTHER -> [out |-> o, raised |-> "none"]

RECURSIVE RunPlan(_, _, _, _, _)
\* the processors of pl one after the other, up to the first escaping exception
RunPlan(pl, o, nodes, bad, two) ==
    IF pl = <<>> THEN [out |-> o, raised |-> "none"]
    ELSE LET e == StepEffect(Head(pl), o, nodes, bad, two) IN
         IF e.raised # "none" THEN e
         ELSE RunPlan(Tail(pl), e.out, nodes, bad, two)

\* create_ats_resume as a function of its inputs: the containers at the end,
\* what escaped, and whether document.save was reached
create_ats_resume(cfg, two, nodes, bad) ==
    IF ~(DocKeys \subseteq cfg.document_defaults)
    THEN [out |-> EmptyOut, raised |-> "config", saved |-> FALSE]
    ELSE LET r == RunPlan(PlanFor(cfg, two), EmptyOut, nodes, bad, two) IN
         [out |-> r.out, raised |-> r.raised, saved |-> r.raised = "none"]

Raise(who) ==
    /\ pc' = "raised"
    /\ raisedBy' = who

\* lines 737-743 index document_defaults without a default; then the branch
\* on two_column_enabled fixes the processors to run
CreateStart ==
    /\ pc = "start"
    /\ IF DocKeys \subseteq config.document_defaults
       THEN /\ pc' = "run"
            /\ plan' = PlanFor(config, twoCol)
            /\ idx' = 1
            /\ UNCHANGED raisedBy
       ELSE /\ Raise("config")
            /\ UNCHANGED <<plan, idx>>
    /\ UNCHANGED <<inputVars, out, saves, ran, funVars>>

Current == plan[idx]

AtStep(op) == pc = "run" /\ idx <= Len(plan) /\ Current.op = op

\* one processor call of create_ats_resume
Step ==
    /\ LET e == StepEffect(Current, out, md, faulty, twoCol) IN
         /\ out' = e.out
         /\ IF e.raised # "none"
            THEN Raise(e.raised) /\ UNCHANGED idx
            ELSE idx' = idx + 1 /\ UNCHANGED <<pc, raisedBy>>
    /\ ran' = IF Current.op \in {"section", "ribbon"}
              THEN Append(ran, Current.key) ELSE ran
    /\ UNCHANGED <<inputVars, plan, saves, funVars>>

\* process_header_section(document, soup)
ProcessHeader == AtStep("header") /\ Step

\* _create_two_column_layout(document)
CreateLayout == AtStep("layout") /\ Step

\* _process_contact_info_horizontal(contact_ribbon_cell, soup)
ContactRibbon == AtStep("ribbon") /\ Step

\* process_<section>_section(document or cell, soup)
ProcessSection == AtStep("section") /\ Step

\* _add_horizontal_line_to_cell between two blocks of a column
AddLine == AtStep("line") /\ Step

\* line 808: certifications_section is None, .docx_heading raises
SidebarCrash == AtStep("crash") /\ Step

\* _apply_styles_to_cell_content on the cells of the layout
ApplyCellStyles == AtStep("styles") /\ Step

\* a variant that saves after every processor instead of once at the end
SaveAfterEachProcessor ==
    /\ pc = "run"
    /\ saves < 2
    /\ saves' = saves + 1
    /\ pc' = IF idx > Len(plan) THEN "done" ELSE pc
    /\ UNCHANGED <<inputVars, out, plan, idx, ran, raisedBy, funVars>>

\* lines 905-911: page numbers, then document.save(output_file), once
Save ==
    /\ pc = "run"
    /\ idx > Len(plan)
    /\ saves' = saves + 1
    /\ pc' = "done"
    /\ UNCHANGED <<inputVars, out, plan, idx, ran, raisedBy, funVars>>

Next ==
    \/ CreateStart
    \/ ProcessHeader
    \/ CreateLayout
    \/ ContactRibbon
    \/ ProcessSection
    \/ AddLine
    \/ SidebarCrash
    \/ ApplyCellStyles
    \/ Save

Spec == Init /\ [][Next]_vars

----------------------------------------------------------------------------
(* Properties of create_ats_resume                                         *)

Terminated == pc \in {"done", "raised"}

PresentIn(nodes) == {k \in Keys : FindH2(nodes, k) # 0}

RECURSIVE Headings(_)
\* the sections of the headings of container o, in the order they appear
Headings(o) ==
    IF o = <<>> THEN <<>>
    ELSE (IF Head(o).kind = "heading" THEN <<Head(o).sec>> ELSE <<>>)
         \o Headings(Tail(o))

RECURSIVE Blocks(_, _)
\* the elements of container o attributed to one of secs
Blocks(o, secs) ==
    IF o = <<>> THEN <<>>
    ELSE (IF Head(o).sec \in secs THEN <<Head(o)>> ELSE <<>>)
         \o Blocks(Tail(o), secs)

\* C1: in the single-column layout every element of a section comes after the
\* elements of the sections declared before it and follows its own heading,
\* and a finished run has emitted exactly the headings of the configured
\* sections present in the markdown, in the order resume_sections declares
\* them, whatever the order of the h2 headings in the markdown.
C1_SingleColumnFollowsConfiguredOrder ==
    ~twoCol =>
        LET d == out["doc"]
            order == get_ordered_sections(config)
        IN /\ \A i, j \in 1..Len(d) :
                 (i < j /\ d[i].sec \in Keys /\ d[j].sec \in Keys)
                    => IndexOf(order, d[i].sec) <= IndexOf(order, d[j].sec)
           /\ \A j \in 1..Len(d) :
                 d[j].kind = "content"
                    => \E i \in 1..(j - 1) :
                          d[i].kind = "heading" /\ d[i].sec = d[j].sec
           /\ pc = "done" => Headings(d) = SelectSeq2(order, PresentIn(md))

\* a finished single-column run over a markdown whose two sections come in
\* the opposite order of their declaration
C1_Witness ==
    /\ ~twoCol
    /\ pc = "done"
    /\ Len(config.resume_sections) = 2
    /\ Headings(out["doc"]) = config.resume_sections
    /\ FindH2(md, config.resume_sections[1]) > FindH2(md, config.resume_sections[2])

\* C2: in either layout an exception raised by a section formatter never
\* leaves create_ats_resume, and a finished run has called the formatter of
\* every configured section and saved the document.
C2_FormatterFailureIsContained ==
    /\ raisedBy \notin Keys
    /\ pc = "done" =>
          /\ saves = 1
          /\ Range(config.resume_sections) \subseteq Range(ran)

\* C3: document.save is called at most once, only when every processor has
\* finished, never in a run that an exception left, and no element is
\* appended to the document once it is saved.
C3_SavedOnceAfterAllFormatters ==
    /\ [](saves <= 1)
    /\ [](saves = 1 => pc = "done" /\ idx = Len(plan) + 1)
    /\ [](pc = "raised" => saves = 0)
    /\ [][saves >= 1 => out' = out]_vars

\* a saved single-column document with a header and a section
C3_Witness ==
    /\ saves = 1
    /\ Len(ran) >= 1
    /\ Len(out["doc"]) >= 4

\* configuration cfg without the declaration of section k
Without(cfg, k) ==
    [cfg EXCEPT !.resume_sections = SelectSeq2(@, Keys \ {k})]

\* per container, what a run emitted for sections and between them
SectionOutput(o) == [c \in Containers |-> Blocks(o[c], Keys \cup {"sep"})]

\* C4: a configured section that is absent from the markdown raises nothing
\* and gets no element, and a finished run emitted for the sections (and
\* between them) what the run without that section's declaration emits.
C4_AbsentSectionLeavesNoTrace ==
    \A k \in Range(config.resume_sections) \ PresentIn(md) :
        /\ raisedBy # k
        /\ \A c \in Containers : Blocks(out[c], {k}) = <<>>
        /\ pc = "done" =>
              LET r == create_ats_resume(Without(config, k), twoCol, md, faulty)
              IN r.saved /\ SectionOutput(r.out) = SectionOutput(out)

\* C10: a run whose configuration file is missing, unparsable or leaves
\* document defaults out completes and saves the document.
C10_FallbackRunCompletes ==
    (fileState # "ok" \/ yamlDefaults # DocKeys) /\ Terminated
        => pc = "done" /\ saves = 1

----------------------------------------------------------------------------
(* _prepare_section on its own: any siblings in front of the section's h2  *)

\* the variables of create_ats_resume while a helper is exercised on its own
MainIdle ==
    /\ fileState = "ok"
    /\ yamlDefaults = DocKeys
    /\ yamlSections = <<>>
    /\ config = LoadedConfig("ok", DocKeys, <<>>)
    /\ twoCol = FALSE
    /\ md = <<>>
    /\ faulty = {}
    /\ out = EmptyOut
    /\ pc = "helper"
    /\ plan = <<>>
    /\ idx = 0
    /\ saves = 0
    /\ ran = <<>>
    /\ raisedBy = "none"

\* what can precede an h2 at the top level of the parsed markdown: a rule, a
\* whitespace-only text node, another text node (an HTML comment), a line
\* break element, a paragraph
SibTags == {"hr", "#ws", "#text", "br", "p"}

PrepKey == "education"

\* process_header_section with header_image enabled (lines 979-1048): the
\* title paragraph, then a table holding image, tagline and rule
HeaderImageElements ==
    <<El("title", "header", 1), El("table", "header", 0)>>

\* containers _prepare_section is called on: an emptied table cell, the body
\* after the header (without and with header image), the body after a section
PrepDocs ==
    { <<>>,
      HeaderElements(HeaderNodes(TRUE)),
      HeaderImageElements,
      HeaderElements(HeaderNodes(TRUE))
         \o <<El("heading", "about", 3), El("content", "about", 4)>> }

InitPrepare ==
    /\ MainIdle
    /\ \E pre \in SeqsUpTo(SibTags, MaxSib), d \in PrepDocs :
          arg = [nodes |-> [i \in 1..Len(pre) |-> Node(pre[i], "")]
                           \o <<Node("h2", PrepKey), Node("p", PrepKey)>>,
                 doc |-> d]
    /\ res = <<>>
    /\ fpc = "ready"

\* section_h2 = _prepare_section(document, soup, section)
Prepare ==
    /\ fpc = "ready"
    /\ res' = _prepare_section(arg.doc, arg.nodes, PrepKey)
    /\ fpc' = "done"
    /\ UNCHANGED <<mainVars, arg>>

NextPrepare == Prepare

SpecPrepare == InitPrepare /\ [][NextPrepare]_vars

RECURSIVE PrevSkippingWhitespace(_, _)
\* the nearest sibling at or before i that is not a whitespace-only text node
PrevSkippingWhitespace(nodes, i) ==
    IF i = 0 THEN 0
    ELSE IF nodes[i].tag = "#ws" THEN PrevSkippingWhitespace(nodes, i - 1)
    ELSE i

RuleBeforeSkippingWhitespace(nodes, i) ==
    LET p == PrevSkippingWhitespace(nodes, i - 1)
    IN p # 0 /\ nodes[p].tag = "hr"

\* C9: the section heading is always emitted last; the element right before
\* it carries a page break iff the nearest sibling before the h2, skipping
\* whitespace-only text nodes, is an hr; and the break went into the last
\* paragraph already in the container when there was one, else into a new one.
C9_PageBreakIffRuleBefore ==
    fpc = "done" =>
        LET d == res.doc
            n == Len(d)
            h2 == FindH2(arg.nodes, PrepKey)
            rule == RuleBeforeSkippingWhitespace(arg.nodes, h2)
        IN /\ d[n] = El("heading", PrepKey, h2)
           /\ rule <=> (n > 1 /\ d[n - 1].brk)
           /\ n = Len(arg.doc) + (IF rule /\ arg.doc = <<>> THEN 2 ELSE 1)

----------------------------------------------------------------------------
(* Strings: a text is the sequence of its characters                       *)

Letters == {"a", "b", "c", "h", "p", "s", "t", "u", "w"}
Whitespace == {" "}
SentenceEnd == {".", "!", "?", ":", ";"}

RECURSIVE Concat(_)
\* "".join(parts)
Concat(parts) ==
    IF parts = <<>> THEN <<>> ELSE Head(parts) \o Concat(Tail(parts))

\* text[i:] of Python (i counted from 1 here)
From(text, i) == SubSeq(text, i, Len(text))

\* text.startswith(prefix, i)
StartsWithAt(text, prefix, i) ==
    /\ i + Len(prefix) - 1 <= Len(text)
    /\ SubSeq(text, i, i + Len(prefix) - 1) = prefix

\* the end of the longest run of characters of class cls that starts at i
\* (i - 1 when text[i] is not in cls)
RunEnd(text, i, cls) ==
    LET stops == {j \in i..Len(text) : text[j] \notin cls}
    IN IF stops = {} THEN Len(text) ELSE Min(stops) - 1

Max(S) == CHOOSE x \in S : \A y \in S : y <= x

\* text.rstrip()
RStrip(text) ==
    LET keep == {i \in 1..Len(text) : text[i] \notin Whitespace}
    IN IF keep = {} THEN <<>> ELSE SubSeq(text, 1, Max(keep))

\* text.strip()
Strip(text) ==
    LET keep == {i \in 1..Len(text) : text[i] \notin Whitespace}
    IN IF keep = {} THEN <<>> ELSE SubSeq(text, Min(keep), Max(keep))

\* lines 4082-4102
_ensure_sentence_ending(text) ==
    IF text = <<>> THEN text
    ELSE LET t == RStrip(text) IN
         IF t # <<>> /\ t[Len(t)] \in SentenceEnd THEN t ELSE t \o <<".">>

----------------------------------------------------------------------------
(* Link detection: the three patterns of lines 39-41 and _detect_link      *)

NoMatch == [start |-> 0, end |-> 0]

\* MD_LINK_PATTERN.search(text): leftmost "[", then the first "](" after it
\* that still has a ")" behind it, then the first such ")"
MdCloseAt(text, i) ==
    {j \in (i + 1)..Len(text) :
        /\ text[j] = "]"
        /\ j < Len(text) /\ text[j + 1] = "("
        /\ \E k \in (j + 2)..Len(text) : text[k] = ")"}

MdSearch(text) ==
    LET starts == {i \in 1..Len(text) : text[i] = "[" /\ MdCloseAt(text, i) # {}}
    IN IF starts = {} THEN [start |-> 0, end |-> 0, mid |-> 0]
       ELSE LET i == Min(starts)
                j == Min(MdCloseAt(text, i))
                k == Min({n \in (j + 2)..Len(text) : text[n] = ")"})
            IN [start |-> i, end |-> k, mid |-> j]

Scheme == <<"h", "t", "t", "p", ":", "/", "/">>
SchemeS == <<"h", "t", "t", "p", "s", ":", "/", "/">>
Www == <<"w", "w", "w", ".">>

\* where the rest of a URL starts when one starts at i, else 0
UrlBodyAt(text, i) ==
    LET body == IF StartsWithAt(text, Scheme, i) THEN i + Len(Scheme)
                ELSE IF StartsWithAt(text, SchemeS, i) THEN i + Len(SchemeS)
                ELSE IF StartsWithAt(text, Www, i) THEN i + Len(Www)
                ELSE 0
    IN IF body # 0 /\ body <= Len(text) /\ text[body] \notin Whitespace
       THEN body ELSE 0

\* URL_PATTERN.search(text): leftmost scheme or www., then all non-space
UrlSearch(text) ==
    LET starts == {i \in 1..Len(text) : UrlBodyAt(text, i) # 0}
    IN IF starts = {} THEN NoMatch
       ELSE LET i == Min(starts)
                stops == {j \in UrlBodyAt(text, i)..Len(text) : text[j] \in Whitespace}
            IN [start |-> i, end |-> IF stops = {} THEN Len(text) ELSE Min(stops) - 1]

Digits == {"1"}
LocalChars == Letters \cup Digits \cup {".", "_", "%", "+", "-"}
DomainChars == Letters \cup Digits \cup {".", "-"}

\* the dots at which the domain of an address with "@" at position at can end
\* its last label: at least one domain character before, two letters after
EmailDots(text, at) ==
    LET q == RunEnd(text, at + 1, DomainChars) IN
    {e \in (at + 2)..q :
        text[e] = "." /\ RunEnd(text, e + 1, Letters) >= e + 2}

\* EMAIL_PATTERN.search(text): leftmost start, every quantifier greedy
EmailSearch(text) ==
    LET ats == {p \in 2..Len(text) :
                   /\ text[p] = "@"
                   /\ text[p - 1] \in LocalChars
                   /\ EmailDots(text, p) # {}}
    IN IF ats = {} THEN NoMatch
       ELSE LET p == Min(ats)
                e == Max(EmailDots(text, p))
                before == {i \in 1..(p - 1) : text[i] \notin LocalChars}
                \* the part of the domain run behind the last usable dot
                tail == RunEnd(text, e + 1, Letters)
            IN [start |-> IF before = {} THEN 1 ELSE Max(before) + 1,
                end |-> tail]

\* lines 3875-3886
_format_url(url) == IF StartsWithAt(url, Www, 1) THEN <<"h", "t", "t", "p", ":", "/", "/">> \o url ELSE url

Mailto == <<"m", "a", "i", "l", "t", "o", ":">>

\* lines 3838-3872: the first pattern of the list that matches anywhere wins
_detect_link(text) ==
    LET m == MdSearch(text)
        u == UrlSearch(text)
        e == EmailSearch(text)
    IN IF m.start # 0
       THEN [is_link |-> TRUE, kind |-> "md",
             display |-> SubSeq(text, m.start + 1, m.mid - 1),
             url |-> SubSeq(text, m.mid + 2, m.end - 1),
             matched |-> SubSeq(text, m.start, m.end)]
       ELSE IF u.start # 0
       THEN [is_link |-> TRUE, kind |-> "url",
             display |-> SubSeq(text, u.start, u.end),
             url |-> _format_url(SubSeq(text, u.start, u.end)),
             matched |-> SubSeq(text, u.start, u.end)]
       ELSE IF e.start # 0
       THEN [is_link |-> TRUE, kind |-> "email",
             display |-> SubSeq(text, e.start, e.end),
             url |-> Mailto \o SubSeq(text, e.start, e.end),
             matched |-> SubSeq(text, e.start, e.end)]
       ELSE [is_link |-> FALSE, kind |-> "none", display |-> text,
             url |-> <<>>, matched |-> <<>>]

\* remaining_text.find(matched_text), counted from 1; 0 when not found
Find(text, sub) ==
    LET hits == {i \in 1..(Len(text) - Len(sub) + 1) : StartsWithAt(text, sub, i)}
    IN IF hits = {} THEN 0 ELSE Min(hits)

----------------------------------------------------------------------------
(* _process_text_for_hyperlinks: the fragments it turns into runs          *)

TextFrag(text) ==
    [kind |-> "text", text |-> text, url |-> <<>>, from |-> 0, to |-> 0,
     pattern |-> "none"]

\* from..to is where in the scanned text the link was matched
LinkFrag(d, from, to) ==
    [kind |-> "link", text |-> d.display, url |-> d.url, from |-> from,
     to |-> to, pattern |-> d.kind]

\* a variant that resumes one character too far behind the link
after_link_pos_plus_one(link_position, matched_text) ==
    link_position + Len(matched_text) + 1

\* line 3925: the position right behind the matched text
after_link_pos(link_position, matched_text) ==
    link_position + Len(matched_text)

\* one pass of the loop of lines 3909-3940 once _detect_link found link d in
\* remaining_text: the fragments it appends and where the next pass starts
LinkPass(remaining, offset, d) ==
    LET pos == Find(remaining, d.matched)
        after == after_link_pos(pos, d.matched)
        space == after <= Len(remaining) /\ remaining[after] = " "
    IN [frags |-> (IF pos > 1 THEN <<TextFrag(SubSeq(remaining, 1, pos - 1))>>
                   ELSE <<>>)
                  \o <<LinkFrag(d, offset + pos, offset + pos + Len(d.matched) - 1)>>
                  \o (IF space THEN <<TextFrag(<<" ">>)>> ELSE <<>>),
        next |-> IF space THEN after + 1 ELSE after]

RECURSIVE ScanLinks(_, _)
\* the loop of lines 3909-3940 over remaining_text; offset is the number of
\* characters of the text already consumed (the one-element sets bind the
\* link, the pass and the rest of the text to their values)
ScanLinks(remaining, offset) ==
    IF remaining = <<>> THEN <<>>
    ELSE CHOOSE fr \in
            {IF ~d.is_link THEN <<TextFrag(remaining)>>
             ELSE CHOOSE all \in UNION
                     {{p.frags \o ScanLinks(rest, offset + p.next - 1) :
                          rest \in {From(remaining, p.next)}} :
                       p \in {LinkPass(remaining, offset, d)}} : TRUE :
                d \in {_detect_link(remaining)}} : TRUE

\* lines 3889-3953: the runs and hyperlinks added to the paragraph, in order
_process_text_for_hyperlinks(text, ensure_sentence_ending) ==
    IF Strip(text) = <<>> THEN <<>>
    ELSE LET fr == ScanLinks(text, 0) IN
         IF ensure_sentence_ending /\ fr # <<>> /\ fr[Len(fr)].kind = "text"
         THEN [fr EXCEPT ![Len(fr)].text = _ensure_sentence_ending(@)]
         ELSE fr

\* what the texts handed to the hyperlink pass are made of
LinkPieces ==
    { <<"a">>, <<" ">>, <<".">>, <<"[">>, <<")">>,
      <<"[", "a", "]", "(", "u", ")">>,
      <<"h", "t", "t", "p", ":", "/", "/", "u">>,
      <<"w", "w", "w", ".", "u">>,
      <<"a", "@", "b", ".", "c", "c">> }

InitLinks ==
    /\ MainIdle
    /\ \E ps \in SeqsUpTo(LinkPieces, MaxPieces), e \in BOOLEAN :
          arg = [text |-> Concat(ps), ensure_sentence_ending |-> e]
    /\ res = <<>>
    /\ fpc = "ready"

\* _process_text_for_hyperlinks(paragraph, text, ensure_sentence_ending)
ProcessTextForHyperlinks ==
    /\ fpc = "ready"
    /\ res' = _process_text_for_hyperlinks(arg.text, arg.ensure_sentence_ending)
    /\ fpc' = "done"
    /\ UNCHANGED <<mainVars, arg>>

NextLinks == ProcessTextForHyperlinks

SpecLinks == InitLinks /\ [][NextLinks]_vars

RECURSIVE RunTexts(_)
\* the concatenation of the texts of the emitted runs
RunTexts(frags) ==
    IF frags = <<>> THEN <<>> ELSE Head(frags).text \o RunTexts(Tail(frags))

RECURSIVE SourceTexts(_, _)
\* the same, each link run replaced by the span of text it was matched in
SourceTexts(frags, text) ==
    IF frags = <<>> THEN <<>>
    ELSE (IF Head(frags).kind = "link"
          THEN SubSeq(text, Head(frags).from, Head(frags).to)
          ELSE Head(frags).text)
         \o SourceTexts(Tail(frags), text)

LinkSpansIncrease(frags, text) ==
    /\ \A i \in 1..Len(frags) :
          frags[i].kind = "link"
             => 1 <= frags[i].from /\ frags[i].from <= frags[i].to
                /\ frags[i].to <= Len(text)
    /\ \A i, j \in 1..Len(frags) :
          (i < j /\ frags[i].kind = "link" /\ frags[j].kind = "link")
             => frags[i].to < frags[j].from

\* C7 as stated: the link spans are disjoint and increasing, and the texts
\* of the emitted runs concatenate to the text that was scanned.
C7_RunsConcatenateToText ==
    (fpc = "done" /\ ~arg.ensure_sentence_ending)
        => /\ LinkSpansIncrease(res, arg.text)
           /\ RunTexts(res) = arg.text

\* C7, amended: for a text that is not blank the link spans are disjoint
\* and increasing and the runs concatenate to the scanned text once every
\* link run is replaced by the span it was matched in; the run of a URL or
\* e-mail link shows its span, the run of a markdown link shows the label
\* between the brackets of its span; a blank text emits no run at all.
C7_RunsCoverTextUpToLinkLabels ==
    (fpc = "done" /\ ~arg.ensure_sentence_ending)
        => IF Strip(arg.text) = <<>> THEN res = <<>>
           ELSE /\ LinkSpansIncrease(res, arg.text)
                /\ SourceTexts(res, arg.text) = arg.text
                /\ \A i \in 1..Len(res) :
                      res[i].kind = "link" =>
                         LET span == SubSeq(arg.text, res[i].from, res[i].to) IN
                         IF res[i].pattern = "md"
                         THEN span = <<"[">> \o res[i].text \o <<"]", "(">>
                                       \o res[i].url \o <<")">>
                         ELSE span = res[i].text

\* a text with a markdown link, a second link and plain text around them
C7_Witness ==
    /\ fpc = "done"
    /\ ~arg.ensure_sentence_ending
    /\ \E i, j, k \in 1..Len(res) :
          /\ i < j /\ res[i].kind = "link" /\ res[j].kind = "link"
          /\ res[i].pattern = "md"
          /\ res[k].kind = "text"

\* where the pass that emitted link fragment i started in the scanned text:
\* right behind the previous link and the one space consumed after it
StepStart(frags, text, i) ==
    LET prev == {j \in 1..(i - 1) : frags[j].kind = "link"} IN
    IF prev = {} THEN 1
    ELSE LET after == frags[Max(prev)].to + 1 IN
         IF after <= Len(text) /\ text[after] = " " THEN after + 1 ELSE after

\* the matches of the three patterns in text, each with its class; the
\* classes are numbered in the order of the list in _detect_link
ClassMatches(text) ==
    {c \in {[kind |-> "md", rank |-> 1, start |-> MdSearch(text).start],
            [kind |-> "url", rank |-> 2, start |-> UrlSearch(text).start],
            [kind |-> "email", rank |-> 3, start |-> EmailSearch(text).start]} :
        c.start # 0}

\* the match that starts nearest the beginning, the class order breaking ties
NearestMatch(text) ==
    CHOOSE c \in ClassMatches(text) :
        \A o \in ClassMatches(text) :
            c.start < o.start \/ (c.start = o.start /\ c.rank <= o.rank)

\* C17: at each step of the hyperlink scan the span extracted is the match,
\* among the markdown-link, URL and e-mail matches in the remaining text,
\* that starts nearest the beginning of the remaining text; the class order
\* only decides between matches starting at the same position.
C17_ExtractedSpanIsNearestMatch ==
    fpc = "done" =>
        \A i \in 1..Len(res) :
            res[i].kind = "link" =>
                LET s == StepStart(res, arg.text, i)
                    n == NearestMatch(From(arg.text, s))
                IN /\ res[i].from = s - 1 + n.start
                   /\ res[i].pattern = n.kind

----------------------------------------------------------------------------
(* _add_bullet_list: the runs of the paragraphs it adds                    *)

\* a child node of an li: a text node, or a strong, em or a element
Child(kind, text) == [kind |-> kind, text |-> text]

\* item is the li the run renders (0: the bullet or line break in front of
\* it); link tells a hyperlink, which is not among paragraph.runs
Run(text, style, link, item) ==
    [text |-> text, bold |-> style = "bold", italic |-> style = "italic",
     link |-> link, item |-> item]

\* lines 3696-3724: one run per child, in order
_process_list_item_formatting(li, ensure_ending, item) ==
    [i \in 1..Len(li) |->
        CASE li[i].kind = "strong" -> Run(li[i].text, "bold", FALSE, item)
          [] li[i].kind = "em" -> Run(li[i].text, "italic", FALSE, item)
          [] li[i].kind = "a" -> Run(li[i].text, "none", TRUE, item)
          [] OTHER ->
               Run(IF ensure_ending THEN _ensure_sentence_ending(li[i].text)
                   ELSE li[i].text, "none", FALSE, item)]

\* lines 2960-2968: the last of paragraph.runs gets the period
EndLastRun(runs) ==
    LET own == {i \in 1..Len(runs) : ~runs[i].link} IN
    IF own = {} THEN runs
    ELSE LET last == Max(own)
             t == RStrip(runs[last].text)
         IN IF t # <<>> /\ t[Len(t)] \in SentenceEnd THEN runs
            ELSE [runs EXCEPT ![last].text = t \o <<".">>]

BulletChar == <<"*", " ">>

\* lines 2913-2973: the paragraphs added for the list, each the sequence of
\* its runs; one paragraph for the whole list when paragraph_lists is set
_add_bullet_list(ul, paragraph_lists) ==
    IF paragraph_lists
    THEN <<Concat([i \in 1..Len(ul) |->
                     (IF i > 1 THEN <<Run(<<"\n">>, "none", FALSE, 0)>> ELSE <<>>)
                     \o <<Run(BulletChar, "none", FALSE, 0)>>
                     \o _process_list_item_formatting(ul[i], TRUE, i)])>>
    ELSE [i \in 1..Len(ul) |->
            EndLastRun(_process_list_item_formatting(ul[i], FALSE, i))]

PlainTexts ==
    { <<"a">>, <<"a", ".">>, <<"a", ":">>, <<" ", "a">>, <<"a", " ">>,
      <<" ", "a", " ">> }
InlineTexts == { <<"b">>, <<"b", "!">> }

Children ==
    {Child("text", t) : t \in PlainTexts}
    \cup {Child(k, t) : k \in {"strong", "em", "a"}, t \in InlineTexts}

ItemText(li) == Concat([i \in 1..Len(li) |-> li[i].text])

\* the list items markdown produces: no two text nodes side by side, no
\* white space at either end of the item
ListItems ==
    {li \in SeqsUpTo(Children, MaxChildren) :
        /\ li # <<>>
        /\ \A i \in 1..(Len(li) - 1) :
              ~(li[i].kind = "text" /\ li[i + 1].kind = "text")
        /\ ItemText(li) = Strip(ItemText(li))}

SecondItems == {<<Child("text", <<"a">>)>>, <<Child("a", <<"b">>)>>}

InitBullets ==
    /\ MainIdle
    /\ \E li \in ListItems, m \in BOOLEAN :
          \/ arg = [ul |-> <<li>>, paragraph_lists |-> m]
          \/ \E li2 \in SecondItems :
                arg = [ul |-> <<li, li2>>, paragraph_lists |-> m]
    /\ res = <<>>
    /\ fpc = "ready"

\* _add_bullet_list(document, ul_element)
AddBulletList ==
    /\ fpc = "ready"
    /\ res' = _add_bullet_list(arg.ul, arg.paragraph_lists)
    /\ fpc' = "done"
    /\ UNCHANGED <<mainVars, arg>>

NextBullets == AddBulletList

SpecBullets == InitBullets /\ [][NextBullets]_vars

\* the text the document shows for item i of the list
RenderedItem(paras, i) ==
    LET runs == Concat(paras) IN
    Concat([j \in 1..Len(runs) |->
               IF runs[j].item = i THEN runs[j].text ELSE <<>>])

\* C6: in both list modes and for every mix of plain, bold, italic and link
\* children, an item whose text does not end in . ! ? : ; is rendered as a
\* text that ends in a period, and an item that ends in one of them is
\* rendered unchanged.
C6_BulletEndsInSentencePunctuation ==
    fpc = "done" =>
        \A i \in 1..Len(arg.ul) :
            LET t == ItemText(arg.ul[i])
                r == RenderedItem(res, i)
            IN IF t[Len(t)] \in SentenceEnd THEN r = t
               ELSE r # <<>> /\ r[Len(r)] = "."

----------------------------------------------------------------------------
(* _process_horizontal_skills_list and _format_skills_list                 *)

RECURSIVE SplitFrom(_, _, _)
\* text[i:].split(sep) for a separator that is not empty: cut at each
\* occurrence of sep, found from left to right
SplitFrom(text, sep, i) ==
    LET hits == {j \in i..(Len(text) - Len(sep) + 1) : StartsWithAt(text, sep, j)}
    IN IF hits = {} THEN <<From(text, i)>>
       ELSE CHOOSE r \in
               {<<SubSeq(text, i, j - 1)>> \o SplitFrom(text, sep, n) :
                   j \in {Min(hits)}, n \in {Min(hits) + Len(sep)}} : TRUE

RECURSIVE DropEmpty(_)
DropEmpty(parts) ==
    IF parts = <<>> THEN <<>>
    ELSE (IF Head(parts) = <<>> THEN <<>> ELSE <<Head(parts)>>)
         \o DropEmpty(Tail(parts))

\* a variant that keeps the empty entries of the split
ParseSkillsKeepingEmpty(text, separator) ==
    LET parts == SplitFrom(text, Strip(separator), 1)
    IN [i \in 1..Len(parts) |-> Strip(parts[i])]

\* lines 2295-2296, for a separator that is not blank
ParseSkills(text, separator) ==
    LET parts == SplitFrom(text, Strip(separator), 1)
    IN DropEmpty([i \in 1..Len(parts) |-> Strip(parts[i])])

\* separator.join(skills)
Join(skills, separator) ==
    Concat([i \in 1..Len(skills) |->
               (IF i > 1 THEN separator ELSE <<>>) \o skills[i]])

\* lines 3770-3819 with the default arguments: the runs of the paragraph,
\* and whether Pt(None) raised once the only run was added
_add_formatted_paragraph(text) ==
    IF ~_detect_link(text).is_link
    THEN [runs |-> <<TextFrag(text)>>, raised |-> "TypeError"]
    ELSE [runs |-> _process_text_for_hyperlinks(text, FALSE), raised |-> "none"]

\* lines 3727-3767
_format_skills_list(skills, separator, apply_bold, use_formatted_paragraph) ==
    IF apply_bold
    THEN [runs |-> Concat([i \in 1..Len(skills) |->
                             (IF i > 1 THEN <<TextFrag(separator)>> ELSE <<>>)
                             \o <<TextFrag(skills[i])>>]),
          raised |-> "none"]
    ELSE IF use_formatted_paragraph
    THEN _add_formatted_paragraph(Join(skills, separator))
    ELSE [runs |-> <<TextFrag(Join(skills, separator))>>, raised |-> "none"]

\* lines 2248-2316: the skills parsed, whether a paragraph was added, its
\* runs and what was raised (str.split raises on an empty separator)
_process_horizontal_skills_list(text, is_top_skills, in_sep, out_sep, bold) ==
    IF Strip(in_sep) = <<>>
    THEN [skills |-> <<>>, emitted |-> FALSE, runs |-> <<>>,
          raised |-> "ValueError"]
    ELSE LET skills == ParseSkills(text, in_sep)
             para == _format_skills_list(skills, out_sep, bold, is_top_skills)
         IN [skills |-> skills, emitted |-> TRUE, runs |-> para.runs,
             raised |-> para.raised]

SkillPieces ==
    { <<"a">>, <<"b">>, <<" ">>, <<" ", "*", " ">>, <<",">>, <<"|">>,
      <<"[", "a", "]", "(", "u", ")">> }

InputSeparators == { <<" ", "*", " ">>, <<",", " ">>, <<" ">> }
OutputSeparators == { <<" ", "|", " ">>, <<",", " ">> }

InitSkills ==
    /\ MainIdle
    /\ \E ps \in SeqsUpTo(SkillPieces, MaxSkillPieces),
          i \in InputSeparators, o \in OutputSeparators,
          top \in BOOLEAN, bold \in BOOLEAN :
          arg = [text |-> Concat(ps), is_top_skills |-> top,
                 input_separator |-> i, output_separator |-> o,
                 apply_bold |-> bold]
    /\ res = <<>>
    /\ fpc = "ready"

\* _process_horizontal_skills_list(document, text, is_top_skills)
ProcessSkillsList ==
    /\ fpc = "ready"
    /\ res' = _process_horizontal_skills_list(arg.text, arg.is_top_skills,
                 arg.input_separator, arg.output_separator, arg.apply_bold)
    /\ fpc' = "done"
    /\ UNCHANGED <<mainVars, arg>>

NextSkills == ProcessSkillsList

SpecSkills == InitSkills /\ [][NextSkills]_vars

\* splitting a paragraph text on a separator, with trimming
Resplit(text, separator) ==
    LET parts == SplitFrom(text, Strip(separator), 1)
    IN DropEmpty([i \in 1..Len(parts) |-> Strip(parts[i])])

SkillsKeepApart(text, skills, output_separator, linked) ==
    /\ \A i \in 1..Len(skills) : Find(skills[i], Strip(output_separator)) = 0
    /\ linked => _detect_link(Join(skills, output_separator)).kind # "md"

----------------------------------------------------------------------------
(* process_experience_section: the walk over the siblings of the h2        *)

\* a sibling under the Experience h2; sub is the JobSubsection an h5 or h6
\* matches (find_by_tag_and_text), "none" when it matches none
XNode(tag, text, em, strong, sub) ==
    [tag |-> tag, text |-> text, em |-> em, strong |-> strong, sub |-> sub]

ExpNodes ==
    { XNode("h3", <<"T">>, FALSE, FALSE, "none"),
      XNode("h4", <<"C">>, FALSE, FALSE, "none"),
      XNode("p", <<"J">>, TRUE, FALSE, "none"),
      XNode("p", <<"*", "J", "_">>, TRUE, FALSE, "none"),
      XNode("p", <<"L">>, FALSE, TRUE, "none"),
      XNode("p", <<"x">>, FALSE, FALSE, "none"),
      XNode("ul", <<"u">>, FALSE, FALSE, "none"),
      XNode("h5", <<"S">>, FALSE, FALSE, "summary"),
      XNode("h5", <<"K">>, FALSE, FALSE, "key_skills"),
      XNode("h5", <<"O">>, FALSE, FALSE, "none"),
      XNode("hr", <<>>, FALSE, FALSE, "none"),
      XNode("h5", <<"P">>, FALSE, FALSE, "project"),
      XNode("h6", <<"R">>, FALSE, FALSE, "responsibilities"),
      XNode("h6", <<"A">>, FALSE, FALSE, "additional"),
      XNode("h2", <<"N">>, FALSE, FALSE, "none") }

\* the style constants and section settings the walk reads, and whether the
\* section is written into the document body or into a table cell
ExpConfigs ==
    { [date_location_font_size |-> TRUE, hr_before_job_blank_line |-> TRUE,
       space_before_h3 |-> FALSE, in_cell |-> FALSE],
      [date_location_font_size |-> FALSE, hr_before_job_blank_line |-> TRUE,
       space_before_h3 |-> FALSE, in_cell |-> TRUE],
      [date_location_font_size |-> TRUE, hr_before_job_blank_line |-> FALSE,
       space_before_h3 |-> TRUE, in_cell |-> FALSE] }

\* an element appended to the document; src is the sibling it renders
XEl(kind, src, text, bold, italic) ==
    [kind |-> kind, src |-> src, text |-> text, bold |-> bold, italic |-> italic]

\* text.replace("*", "").replace("_", "").strip()
StripMarkers(text) ==
    LET keep == {i \in 1..Len(text) : text[i] \notin {"*", "_"}}
        nth(n) == CHOOSE i \in keep : Cardinality({j \in keep : j <= i}) = n
    IN Strip([n \in 1..Cardinality(keep) |-> text[nth(n)]])

Emphasised(nodes, i) ==
    i <= Len(nodes) /\ nodes[i].tag = "p" /\ (nodes[i].em \/ nodes[i].strong)

\* element in processed_elements: a Tag equals any Tag of the same content
InProcessed(nodes, processed, i) == \E j \in processed : nodes[j] = nodes[i]

\* processed_elements.add(element)
AddProcessed(nodes, processed, i) ==
    IF InProcessed(nodes, processed, i) THEN processed ELSE processed \cup {i}

InitExp ==
    /\ MainIdle
    /\ \E ns \in SeqsUpTo(ExpNodes, MaxExpNodes), c \in ExpConfigs :
          arg = [nodes |-> ns,
                 date_location_font_size |-> c.date_location_font_size,
                 hr_before_job_blank_line |-> c.hr_before_job_blank_line,
                 space_before_h3 |-> c.space_before_h3,
                 in_cell |-> c.in_cell]
    /\ res = [doc |-> <<>>, i |-> 1, first_job |-> TRUE, processed |-> {},
              ids |-> {}]
    /\ fpc = "walk"

ExpAt(tags) ==
    /\ fpc = "walk"
    /\ res.i <= Len(arg.nodes)
    /\ arg.nodes[res.i].tag \in tags

\* line 1235: an element whose id is recorded is passed over, unless an h3
Recorded == res.i \in res.ids /\ arg.nodes[res.i].tag # "h3"

ExpAdvance(doc, processed, ids, first) ==
    /\ res' = [doc |-> doc, i |-> res.i + 1, first_job |-> first,
               processed |-> processed, ids |-> ids]
    /\ UNCHANGED <<mainVars, arg, fpc>>

\* hasattr(document, "tables"): the document and a table cell both have it
HasTables(in_cell) == TRUE

\* lines 2590-2641 of _process_job_entry: what goes in front of the heading
JobSeparator(n, i, first_job) ==
    IF _has_hr_before_element(n, i)
    THEN IF arg.hr_before_job_blank_line
         THEN <<XEl("break", i, <<>>, FALSE, FALSE)>>
         ELSE <<>>
    ELSE IF ~first_job /\ HasTables(arg.in_cell)
    THEN <<XEl("line", i, <<>>, FALSE, FALSE)>>
    ELSE IF arg.space_before_h3 /\ ~first_job
    THEN <<XEl("spacer", i, <<>>, FALSE, FALSE)>>
    ELSE <<>>

\* lines 1240-1253 and _process_job_entry (2579-2679)
ExpJobEntry ==
    /\ ExpAt({"h3"})
    /\ LET n == arg.nodes
           i == res.i
           before == JobSeparator(n, i, res.first_job)
           dated == i < Len(n) /\ n[i + 1].tag = "p"
           date ==
               IF dated
               THEN <<XEl("para", i + 1, StripMarkers(n[i + 1].text),
                          n[i + 1].strong, n[i + 1].em)>>
               ELSE <<>>
       IN ExpAdvance(res.doc \o before
                        \o <<XEl("heading", i, Strip(n[i].text), FALSE, FALSE)>>
                        \o date,
                     IF dated THEN AddProcessed(n, {i}, i + 1) ELSE {i},
                     res.ids \cup {i}, FALSE)

\* lines 1255-1260 and _process_position (2736-2854); Pt(None) raises when
\* date and location are merged and date_location_font_size is not set
ExpPosition ==
    /\ ExpAt({"h4"})
    /\ ~Recorded
    /\ LET n == arg.nodes
           i == res.i
           heading == <<XEl("heading", i, Strip(n[i].text), FALSE, FALSE)>>
           merged == Emphasised(n, i + 1) /\ Emphasised(n, i + 2)
       IN IF ~merged
          THEN ExpAdvance(res.doc \o heading, {i}, res.ids \cup {i},
                          res.first_job)
          ELSE IF arg.date_location_font_size
          THEN ExpAdvance(
                  res.doc \o heading
                     \o <<XEl("para", i + 1,
                              StripMarkers(n[i + 1].text) \o <<" ", "/", " ">>
                                 \o StripMarkers(n[i + 2].text),
                              n[i + 1].strong, n[i + 1].em)>>,
                  AddProcessed(n, AddProcessed(n, {i}, i + 1), i + 2),
                  res.ids \cup {i}, res.first_job)
          ELSE /\ res' = [res EXCEPT !.doc =
                            @ \o heading
                              \o <<XEl("para", i + 1,
                                       StripMarkers(n[i + 1].text) \o <<" ", "/", " ">>,
                                       FALSE, FALSE)>>]
               /\ fpc' = "raised"
               /\ UNCHANGED <<mainVars, arg>>

\* the siblings _process_subsection consumes: up to the next heading
SubsectionBody(nodes, i) ==
    LET stops == {j \in (i + 1)..Len(nodes) :
                     nodes[j].tag \in {"h2", "h3", "h4", "h5", "h6"}}
        last == IF stops = {} THEN Len(nodes) ELSE Min(stops) - 1
    IN {j \in (i + 1)..last : nodes[j].tag \in {"p", "ul"}}

RECURSIVE AddAllProcessed(_, _, _)
AddAllProcessed(nodes, processed, todo) ==
    IF todo = {} THEN processed
    ELSE AddAllProcessed(nodes, AddProcessed(nodes, processed, Min(todo)),
                         todo \ {Min(todo)})

\* the elements rendering siblings js, in the order of the siblings
RenderBody(nodes, js) ==
    LET nth(n) == CHOOSE j \in js : Cardinality({k \in js : k <= j}) = n
    IN [n \in 1..Cardinality(js) |->
          XEl(IF nodes[nth(n)].tag = "ul" THEN "bullets" ELSE "para", nth(n),
              nodes[nth(n)].text, FALSE, FALSE)]

\* what one pass of the loop of _process_project_section (lines 2495-2574)
\* does at sibling j: a paragraph is rendered whether or not it is already
\* in processed_elements
ProjectPass(nodes, j, doc, processed) ==
    LET nd == nodes[j]
        para(k) == XEl("para", k, nodes[k].text, FALSE, FALSE)
        isP(k) == k <= Len(nodes) /\ nodes[k].tag = "p"
    IN CASE nd.tag = "p" ->
              [doc |-> Append(doc, para(j)),
               processed |-> AddProcessed(nodes, processed, j)]
         [] nd.tag = "h6" /\ nd.sub = "responsibilities" ->
              [doc |-> Append(doc, XEl("heading", j, nd.text, FALSE, FALSE))
                          \o (IF isP(j + 1) THEN <<para(j + 1)>> ELSE <<>>),
               processed |->
                   AddProcessed(nodes,
                       IF isP(j + 1) THEN AddProcessed(nodes, processed, j + 1)
                       ELSE processed, j)]
         [] nd.tag = "h6" /\ nd.sub = "additional" ->
              [doc |-> Append(doc, XEl("heading", j, nd.text, FALSE, FALSE)),
               processed |-> AddProcessed(nodes, processed, j)]
         [] nd.tag = "ul" ->
              [doc |-> Append(doc, XEl("bullets", j, nd.text, FALSE, FALSE)),
               processed |-> AddProcessed(nodes, processed, j)]
         [] OTHER -> [doc |-> doc, processed |-> processed]

RECURSIVE ProjectWalk(_, _, _, _)
\* the loop of _process_project_section from sibling j: up to the next h2,
\* h3, h4 or h5
ProjectWalk(nodes, j, doc, processed) ==
    IF j > Len(nodes) \/ nodes[j].tag \in {"h2", "h3", "h4", "h5"}
    THEN [doc |-> doc, processed |-> processed]
    ELSE CHOOSE r \in
            {ProjectWalk(nodes, j + 1, st.doc, st.processed) :
                st \in {ProjectPass(nodes, j, doc, processed)}} : TRUE

\* _process_project_section(document, project_element, processed_elements):
\* the paragraph after the heading becomes part of the heading text
_process_project_section(nodes, i, doc, processed) ==
    LET info == i < Len(nodes) /\ nodes[i + 1].tag = "p"
        heading ==
            <<XEl("heading", i, nodes[i].text, TRUE, TRUE)>>
            \o (IF info
                THEN <<XEl("info", i + 1, Strip(nodes[i + 1].text), TRUE, TRUE)>>
                ELSE <<>>)
    IN ProjectWalk(nodes, IF info THEN i + 2 ELSE i + 1, doc \o heading,
                   IF info THEN AddProcessed(nodes, processed, i + 1)
                   ELSE processed)

\* lines 1374-1420: a standalone Responsibilities or Additional Details h6
\* renders the paragraph or list that follows it
StandaloneBody(nodes, i) ==
    IF i >= Len(nodes) THEN {}
    ELSE IF nodes[i + 1].tag = "ul" THEN {i + 1}
    ELSE IF nodes[i + 1].tag = "p" /\ nodes[i].sub = "responsibilities"
    THEN {i + 1}
    ELSE {}

\* lines 1262-1420: an h5 or h6 that matches Project/Client
\* (_process_project_section), Summary (_process_subsection, 2682-2733),
\* Key Skills (1318-1346), Responsibilities, Additional Details, or no
\* subsection at all
ExpSubsection ==
    /\ ExpAt({"h5", "h6"})
    /\ ~Recorded
    /\ LET n == arg.nodes
           i == res.i
           heading == <<XEl("heading", i, n[i].text, FALSE, FALSE)>>
       IN CASE n[i].sub = "project" /\ ~InProcessed(n, res.processed, i) ->
                 \E r \in {_process_project_section(n, i, res.doc, res.processed)} :
                    ExpAdvance(r.doc, r.processed, res.ids \cup r.processed,
                               res.first_job)
            [] n[i].sub \in {"responsibilities", "additional"}
                  /\ ~InProcessed(n, res.processed, i) ->
                 LET body == StandaloneBody(n, i) IN
                 ExpAdvance(res.doc \o heading \o RenderBody(n, body),
                            AddAllProcessed(n, res.processed, body), res.ids,
                            res.first_job)
            [] n[i].sub = "summary" /\ ~InProcessed(n, res.processed, i) ->
                 LET body == SubsectionBody(n, i)
                     done == AddAllProcessed(n, res.processed, {i} \cup body)
                 IN ExpAdvance(res.doc \o heading \o RenderBody(n, body), done,
                               res.ids \cup done, res.first_job)
            [] n[i].sub = "key_skills" ->
                 IF i < Len(n) /\ n[i + 1].tag = "p"
                 THEN ExpAdvance(res.doc \o heading
                                    \o <<XEl("skills", i + 1, n[i + 1].text,
                                             FALSE, FALSE)>>,
                                 AddProcessed(n, res.processed, i + 1), res.ids,
                                 res.first_job)
                 ELSE ExpAdvance(res.doc \o heading, res.processed, res.ids,
                                 res.first_job)
            [] OTHER ->
                 ExpAdvance(res.doc, res.processed, res.ids, res.first_job)

\* lines 1422-1426: a list no formatter consumed
ExpBulletList ==
    /\ ExpAt({"ul"})
    /\ ~Recorded
    /\ ~InProcessed(arg.nodes, res.processed, res.i)
    /\ ExpAdvance(res.doc \o <<XEl("bullets", res.i, arg.nodes[res.i].text,
                                   FALSE, FALSE)>>,
                  res.processed, res.ids \cup {res.i}, res.first_job)

\* no branch of the loop applies: on to the next sibling (line 1428)
ExpSkip ==
    /\ ExpAt({"h4", "h5", "h6", "ul", "p", "hr"})
    /\ \/ Recorded
       \/ arg.nodes[res.i].tag \in {"p", "hr"}
       \/ arg.nodes[res.i].tag = "ul"
            /\ InProcessed(arg.nodes, res.processed, res.i)
    /\ ExpAdvance(res.doc, res.processed, res.ids, res.first_job)

\* the index where the walk of the section ends: the next h2 or the end
SectionEnd(nodes) == NextH2(nodes, 0)

\* the loop ends with the siblings or at the next h2
ExpFinish ==
    /\ fpc = "walk"
    /\ IF res.i > Len(arg.nodes) THEN TRUE ELSE arg.nodes[res.i].tag = "h2"
    /\ fpc' = "done"
    /\ UNCHANGED <<mainVars, arg, res>>

NextExp ==
    \/ ExpJobEntry
    \/ ExpPosition
    \/ ExpSubsection
    \/ ExpBulletList
    \/ ExpSkip
    \/ ExpFinish

SpecExp == InitExp /\ [][NextExp]_vars

\* C5: once the section is processed, every h3 directly followed by an h4
\* and then by a single emphasised paragraph shows in the document, in this
\* order, as a heading with the h3 text, a heading with the h4 text, and a
\* paragraph with the date text without * and _, italic when it carries em.
C5_JobEntryTitleCompanyDate ==
    fpc = "done" =>
        \A i \in 1..Len(arg.nodes) :
            (/\ arg.nodes[i].tag = "h3"
             /\ i + 2 < SectionEnd(arg.nodes)
             /\ arg.nodes[i + 1].tag = "h4"
             /\ Emphasised(arg.nodes, i + 2)
             /\ ~Emphasised(arg.nodes, i + 3))
            => \E a, b, c \in 1..Len(res.doc) :
                  /\ a < b /\ b < c
                  /\ res.doc[a] = XEl("heading", i, arg.nodes[i].text, FALSE, FALSE)
                  /\ res.doc[b] = XEl("heading", i + 1, arg.nodes[i + 1].text,
                                      FALSE, FALSE)
                  /\ res.doc[c].kind = "para"
                  /\ res.doc[c].src = i + 2
                  /\ res.doc[c].text = StripMarkers(arg.nodes[i + 2].text)
                  /\ res.doc[c].italic = arg.nodes[i + 2].em

----------------------------------------------------------------------------
(* Configuration loading: validation of document_styles                    *)

MaxStyleProps == 1   \* properties the first style of the file declares

\* a YAML scalar is modelled by the Python type the loader gives it
PyTypes == {"str", "int", "float", "bool"}

\* isinstance(value, expected): bool is a subclass of int
IsInstance(v, expected) ==
    \/ v \in expected
    \/ v = "bool" /\ "int" \in expected

\* the type (or tuple of types) each font property is checked against
font_prop_types ==
    [font_name |-> {"str"}, font_size |-> {"int", "float"}, bold |-> {"bool"},
     italic |-> {"bool"}, underline |-> {"bool"}, color |-> {"str"}]

\* the type (or tuple of types) each paragraph property is checked against
para_prop_types ==
    [line_spacing |-> {"int", "float"}, space_after |-> {"int", "float"},
     space_before |-> {"int", "float"}, indent_left |-> {"int", "float"},
     indent_right |-> {"int", "float"}, alignment |-> {"int"}]

PropNames == DOMAIN font_prop_types \cup DOMAIN para_prop_types

prop_types(p) ==
    IF p \in DOMAIN font_prop_types THEN font_prop_types[p]
    ELSE para_prop_types[p]

\* expected_type.__name__ exists for a type, not for a tuple of types
HasName(expected) == Cardinality(expected) = 1

\* _validate_style_properties(properties): properties maps the declared
\* property names to the type of their value.  The warning of a mismatch is
\* formatted with expected_type.__name__, which raises for a tuple.
_validate_style_properties(properties) ==
    LET known == DOMAIN properties \cap PropNames
        bad == {p \in known : ~IsInstance(properties[p], prop_types(p))}
    IN IF \E p \in bad : ~HasName(prop_types(p))
       THEN [raised |-> "AttributeError", valid_props |-> <<>>, warned |-> {}]
       ELSE [raised |-> "none",
             valid_props |-> [p \in known \ bad |-> properties[p]],
             warned |-> bad]

\* the four sections ConfigLoader.__init__ copies after document_styles
OtherSections == {"document_defaults", "style_constants", "paragraph_lists",
                  "paragraph_headings"}

\* ConfigLoader.__init__ on a file that exists and parses to a mapping:
\* yaml = [resume_sections, document_styles (style name -> properties),
\* others (the other sections the file holds)].  Any exception inside the
\* try block is caught and leaves what was assigned before it.
ConfigLoader_init(yaml) ==
    LET v == [s \in DOMAIN yaml.document_styles |->
                 _validate_style_properties(yaml.document_styles[s])]
        failed == \E s \in DOMAIN v : v[s].raised # "none"
    IN [resume_sections |-> yaml.resume_sections,
        document_styles |->
            IF failed THEN <<>>
            ELSE [s \in DOMAIN v |-> v[s].valid_props],
        others |-> IF failed THEN {} ELSE yaml.others,
        warned |-> IF failed THEN {}
                   ELSE UNION {{<<s, p>> : p \in v[s].warned} : s \in DOMAIN v},
        error |-> failed]

\* the properties one style of the sample files declares
SubsetsOfSize(S, n) == {T \in SUBSET S : Cardinality(T) <= n}

StylePropsUpTo(n) ==
    UNION {[T -> PyTypes] : T \in SubsetsOfSize(PropNames, n)}

SecondStyles ==
    {<<>>, [bold |-> "bool"], [font_size |-> "int", color |-> "str"]}

OtherSamples == {{}, {"document_defaults"}, OtherSections}

InitConfig ==
    /\ MainIdle
    /\ \E first \in StylePropsUpTo(MaxStyleProps), second \in SecondStyles,
          two \in BOOLEAN, others \in OtherSamples,
          secs \in {<<>>, <<"about", "skills">>} :
          arg = [resume_sections |-> secs,
                 document_styles |->
                     IF two THEN [s \in {"Normal", "Heading 1"} |->
                                     IF s = "Normal" THEN first ELSE second]
                     ELSE [s \in {"Normal"} |-> first],
                 others |-> others]
    /\ res = <<>>
    /\ fpc = "ready"

\* ConfigLoader(config_file)
LoadConfig ==
    /\ fpc = "ready"
    /\ res' = ConfigLoader_init(arg)
    /\ fpc' = "done"
    /\ UNCHANGED <<mainVars, arg>>

NextConfig == LoadConfig

SpecConfig == InitConfig /\ [][NextConfig]_vars

\* the primitive type the specification expects of each property
ExpectedKind(p) ==
    IF p \in {"font_name", "color"} THEN {"str"}
    ELSE IF p \in {"bold", "italic", "underline"} THEN {"bool"}
    ELSE {"int", "float"}

WellTyped(props) ==
    LET keep == {p \in DOMAIN props : props[p] \in ExpectedKind(p)}
    IN [p \in keep |-> props[p]]

\* C11: a style property of the wrong type is dropped with a warning and
\* nothing is raised: the loaded document_styles hold, for every style of
\* the file, exactly its well-typed properties, and resume_sections and the
\* other sections of the file are loaded.
C11_WrongTypeDropsOnlyThatProperty ==
    fpc = "done"
    => /\ ~res.error
       /\ res.resume_sections = arg.resume_sections
       /\ res.others = arg.others
       /\ DOMAIN res.document_styles = DOMAIN arg.document_styles
       /\ \A s \in DOMAIN arg.document_styles :
             res.document_styles[s] = WellTyped(arg.document_styles[s])

----------------------------------------------------------------------------
(* PDF conversion                                                          *)

Platforms == {"Windows", "Darwin", "Linux"}

\* what the machine holds: the platform, the docx2pdf package ("missing":
\* ImportError; "raises": convert raises; "pdf"/"nopdf": convert returns and
\* the PDF exists or not), the LibreOffice executable and what running it
\* does, and the Word COM automation
PdfEnvs ==
    [platform : Platforms,
     docx2pdf : {"missing", "raises", "pdf", "nopdf"},
     lo_exec : BOOLEAN,
     lo_run : {"pdf", "nopdf", "error"},
     word : {"missing", "error", "pdf", "nopdf"}]

\* _convert_with_docx2pdf: only ImportError is handled
_convert_with_docx2pdf(env) ==
    CASE env.docx2pdf = "missing" -> "false"
      [] env.docx2pdf = "raises" -> "raise"
      [] env.docx2pdf = "pdf" -> "true"
      [] OTHER -> "false"

\* _convert_with_libreoffice: on Windows and macOS a missing executable
\* returns False; on Linux it is assumed on the PATH and a missing one is an
\* OSError of subprocess.run, handled like SubprocessError
_convert_with_libreoffice(env) ==
    IF ~env.lo_exec THEN "false"
    ELSE IF env.lo_run = "pdf" THEN "true" ELSE "false"

\* _convert_with_win32com: Windows only, every exception handled
_convert_with_win32com(env) ==
    IF env.platform # "Windows" THEN "false"
    ELSE IF env.word = "pdf" THEN "true" ELSE "false"

methodsLibreOfficeFirst == <<"libreoffice", "docx2pdf", "win32com">>

\* convert_to_pdf: methods
methods == <<"docx2pdf", "libreoffice", "win32com">>

CallMethod(m, env) ==
    CASE m = "docx2pdf" -> _convert_with_docx2pdf(env)
      [] m = "libreoffice" -> _convert_with_libreoffice(env)
      [] OTHER -> _convert_with_win32com(env)

InitPdf ==
    /\ MainIdle
    /\ arg \in PdfEnvs
    /\ res = [i |-> 1, invoked |-> <<>>, results |-> <<>>,
              returned |-> "pending", raised |-> "none"]
    /\ fpc = "loop"

\* the loop is at method m
AtMethod(m) == fpc = "loop" /\ res.i <= Len(methods) /\ methods[res.i] = m

\* one iteration of "for method in methods": the call, the return on a true
\* result, and the handler that reports an exception and goes on
TryMethod(m) ==
    /\ LET r == CallMethod(m, arg) IN
       /\ res' = [res EXCEPT !.i = @ + 1,
                             !.invoked = Append(@, m),
                             !.results = Append(@, r),
                             !.returned = IF r = "true" THEN "pdf_file" ELSE @]
       /\ fpc' = IF r = "true" THEN "done" ELSE "loop"
    /\ UNCHANGED <<mainVars, arg>>

TryDocx2pdf == AtMethod("docx2pdf") /\ TryMethod("docx2pdf")

TryLibreOffice == AtMethod("libreoffice") /\ TryMethod("libreoffice")

TryWin32com == AtMethod("win32com") /\ TryMethod("win32com")

\* after the loop: the message listing what to install, return None
PdfGiveUp ==
    /\ fpc = "loop"
    /\ res.i > Len(methods)
    /\ res' = [res EXCEPT !.returned = "None"]
    /\ fpc' = "done"
    /\ UNCHANGED <<mainVars, arg>>

NextPdf == TryDocx2pdf \/ TryLibreOffice \/ TryWin32com \/ PdfGiveUp

SpecPdf == InitPdf /\ [][NextPdf]_vars

\* C12: strategies are tried in the order docx2pdf, LibreOffice, Word COM;
\* nothing is tried after a success; the call returns the PDF path exactly
\* when a strategy reported success, null after all three failed, and it
\* never raises.
C12_StrategiesInOrderUntilSuccess ==
    LET order == <<"docx2pdf", "libreoffice", "win32com">>
        n == Len(res.invoked)
    IN /\ n <= 3
       /\ \A k \in 1..n : res.invoked[k] = order[k]
       /\ \A k \in 1..n : res.results[k] = "true" => k = n /\ fpc = "done"
       /\ res.raised = "none"
       /\ fpc = "done" =>
             /\ res.returned = "pdf_file" <=>
                   \E k \in 1..n : res.results[k] = "true"
             /\ res.returned = "None" <=>
                   n = 3 /\ \A k \in 1..n : res.results[k] # "true"
             /\ res.returned \in {"pdf_file", "None"}

\* a run where docx2pdf raised, LibreOffice failed and Word produced the PDF
C12_Witness ==
    /\ fpc = "done"
    /\ res.results = <<"raise", "false", "true">>
    /\ res.returned = "pdf_file"

----------------------------------------------------------------------------
(* API boundary (src/src/api.py): App._response                            *)

\* what one request meets: the outcome of create_ats_resume ("ok" or the
\* class of the exception it raises), the requested format, whether the
\* DOCX exists afterwards, what convert_to_pdf returns, and whether
\* send_from_directory finds the file
ApiRequests ==
    [create : {"ok", "ValueError", "FileNotFoundError", "KeyError"},
     format : {"docx", "pdf", "txt"},
     docx_exists : BOOLEAN,
     pdf : {"pdf_file", "missing_file", "None"},
     send : {"ok", "NotFound"}]

\* App.error_response(code, error): the JSON payload with its status code
error_response(code) == [kind |-> "json", code |-> code]

NoResponse == [kind |-> "pending", code |-> 0]

InitApi ==
    /\ MainIdle
    /\ arg \in ApiRequests
    /\ res = [output_file |-> "None", exception |-> "none",
              response |-> NoResponse]
    /\ fpc = "convert"

\* docx_path = create_ats_resume(...)
ApiCreate ==
    /\ fpc = "convert"
    /\ IF arg.create = "ok"
       THEN /\ fpc' = "select"
            /\ UNCHANGED res
       ELSE /\ fpc' = "except"
            /\ res' = [res EXCEPT !.exception = arg.create]
    /\ UNCHANGED <<mainVars, arg>>

\* if DOCX_EXTENSION in output_formats
ApiPickDocx ==
    /\ fpc = "select"
    /\ arg.format = "docx"
    /\ res' = [res EXCEPT !.output_file =
                   IF arg.docx_exists THEN "docx_path" ELSE "None"]
    /\ fpc' = "check"
    /\ UNCHANGED <<mainVars, arg>>

\* elif PDF_EXTENSION in output_formats: convert_to_pdf(docx_path)
ApiPickPdf ==
    /\ fpc = "select"
    /\ arg.format = "pdf"
    /\ res' = [res EXCEPT !.output_file =
                   IF arg.pdf = "pdf_file" THEN "pdf_path" ELSE "None"]
    /\ fpc' = "check"
    /\ UNCHANGED <<mainVars, arg>>

\* else: raise ValueError("Invalid output format specified")
ApiBadFormat ==
    /\ fpc = "select"
    /\ arg.format \notin {"docx", "pdf"}
    /\ res' = [res EXCEPT !.exception = "ValueError"]
    /\ fpc' = "except"
    /\ UNCHANGED <<mainVars, arg>>

\* if not output_file ...: raise Exception; else send_from_directory
ApiSend ==
    /\ fpc = "check"
    /\ IF res.output_file = "None"
       THEN /\ res' = [res EXCEPT !.exception = "Exception"]
            /\ fpc' = "except"
       ELSE IF arg.send = "NotFound"
       THEN /\ res' = [res EXCEPT !.exception = "NotFound"]
            /\ fpc' = "except"
       ELSE /\ res' = [res EXCEPT !.response = [kind |-> "file", code |-> 200]]
            /\ fpc' = "done"
    /\ UNCHANGED <<mainVars, arg>>

\* except ValueError as e: return self.error_response(400, ...)
ApiExceptValueError ==
    /\ fpc = "except"
    /\ res.exception = "ValueError"
    /\ res' = [res EXCEPT !.response = error_response(400)]
    /\ fpc' = "done"
    /\ UNCHANGED <<mainVars, arg>>

\* except FileNotFoundError as e: self.error_response(404, ...) without a
\* return: the method falls off its end and returns None
ApiExceptFileNotFound ==
    /\ fpc = "except"
    /\ res.exception = "FileNotFoundError"
    /\ res' = [res EXCEPT !.response = [kind |-> "None", code |-> 0]]
    /\ fpc' = "done"
    /\ UNCHANGED <<mainVars, arg>>

\* except Exception as e: return self.error_response(400, ...)
ApiExceptException ==
    /\ fpc = "except"
    /\ res.exception \notin {"ValueError", "FileNotFoundError"}
    /\ res' = [res EXCEPT !.response = error_response(400)]
    /\ fpc' = "done"
    /\ UNCHANGED <<mainVars, arg>>

NextApi ==
    \/ ApiCreate \/ ApiPickDocx \/ ApiPickPdf \/ ApiBadFormat \/ ApiSend
    \/ ApiExceptValueError \/ ApiExceptFileNotFound \/ ApiExceptException

SpecApi == InitApi /\ [][NextApi]_vars

\* C13: every exception raised while a conversion request is handled ends
\* in a JSON error payload with status 400 for a ValueError, 404 for a
\* FileNotFoundError and 500 for any other exception; no exception path
\* ends in an empty response.
C13_ExceptionsBecomeJsonErrors ==
    fpc = "done" /\ res.exception # "none"
    => /\ res.response.kind = "json"
       /\ res.response.code =
             CASE res.exception = "ValueError" -> 400
               [] res.exception = "FileNotFoundError" -> 404
               [] OTHER -> 500

----------------------------------------------------------------------------
(* Two conversions with the same configuration object                      *)

\* the heading styles of document_styles followed here; each is "absent",
\* "plain" (declared without a bold key) or "bold" (declared with bold)
CellStyleNames == {"Heading 1", "Heading 2"}

StyleTables == [CellStyleNames -> {"absent", "plain", "bold"}]

\* paragraph_heading_size configured for h2
H2Sizes == {16, 14, 12}

\* _apply_styles_to_cell_content, method 3: level from the first run's size
LevelBySize(size) ==
    IF size >= 16 THEN 1
    ELSE IF size >= 14 THEN 2
    ELSE IF size >= 12 THEN 3
    ELSE IF size >= 11 THEN 4
    ELSE 0

\* the heading level _apply_styles_to_cell_content detects for element e of
\* a cell: a section heading is a bold paragraph; it is level 1 when its
\* text matches heading_patterns (method 2), else its font size decides;
\* the other paragraphs of the sample resumes are not bold throughout
DetectedLevel(e, patterned, size) ==
    IF e.kind # "heading" THEN 0
    ELSE IF e.sec \in patterned THEN 1
    ELSE LevelBySize(size)

StyleNameOf(level) ==
    CASE level = 1 -> "Heading 1"
      [] level = 2 -> "Heading 2"
      [] OTHER -> "Heading 3"

\* _apply_styles_to_cell_content(cell, document_styles): the style looked up
\* for a detected heading is the dictionary held by the configuration, and
\* line 1777 stores bold into it when it has no bold key
_apply_styles_to_cell_content(cell, styles, patterned, size) ==
    LET levels == {DetectedLevel(cell[i], patterned, size) : i \in 1..Len(cell)} \ {0}
        hit == {StyleNameOf(l) : l \in levels} \cap CellStyleNames
    IN [s \in CellStyleNames |->
           IF s \in hit /\ styles[s] = "plain" THEN "bold" ELSE styles[s]]

RECURSIVE ApplyToCells(_, _, _, _, _)
\* lines 839-840: for cell in [about, contact, sidebar, main]
ApplyToCells(cells, o, styles, patterned, size) ==
    IF cells = <<>> THEN styles
    ELSE CHOOSE after \in
            {ApplyToCells(Tail(cells), o, st, patterned, size) :
                st \in {_apply_styles_to_cell_content(o[Head(cells)], styles,
                                                      patterned, size)}} : TRUE

\* one call of create_ats_resume with configuration object c: the document
\* it builds (its elements and the style table set by
\* _apply_document_styles) and the configuration object afterwards
Convert(c, nodes) ==
    CHOOSE result \in
        {[saved |-> r.saved,
          document |-> [out |-> r.out, styles |-> c.styles],
          config |-> IF c.two /\ r.saved
                     THEN [c EXCEPT !.styles =
                              ApplyToCells(<<"about", "contact", "sidebar", "main">>,
                                           r.out, c.styles, c.patterned, c.h2size)]
                     ELSE c] :
            r \in {create_ats_resume(c.cfg, c.two, nodes, {})}} : TRUE

InitTwice ==
    /\ MainIdle
    /\ \E secs \in CfgSeqs, two \in BOOLEAN, st \in StyleTables,
          size \in H2Sizes, pat \in {{}, Keys} :
          arg = [config |-> [cfg |-> LoadedConfig("ok", DocKeys, secs),
                             two |-> two, styles |-> st,
                             patterned |-> pat, h2size |-> size],
                 md |-> Markdown(TRUE, secs, {})]
    /\ res = [config |-> arg.config, first |-> <<>>, second |-> <<>>]
    /\ fpc = "first"

\* create_ats_resume(md_file, out1, config_loader)
FirstRun ==
    /\ fpc = "first"
    /\ \E r \in {Convert(res.config, arg.md)} :
          res' = [res EXCEPT !.config = r.config,
                             !.first = [saved |-> r.saved, document |-> r.document]]
    /\ fpc' = "second"
    /\ UNCHANGED <<mainVars, arg>>

\* create_ats_resume(md_file, out2, config_loader), the same loader
SecondRun ==
    /\ fpc = "second"
    /\ \E r \in {Convert(res.config, arg.md)} :
          res' = [res EXCEPT !.config = r.config,
                             !.second = [saved |-> r.saved, document |-> r.document]]
    /\ fpc' = "done"
    /\ UNCHANGED <<mainVars, arg>>

NextTwice == FirstRun \/ SecondRun

SpecTwice == InitTwice /\ [][NextTwice]_vars

\* C14: in both layouts, two runs of create_ats_resume on the same markdown
\* with the same configuration object build identical documents, and the
\* first run leaves the configuration object as it was given.
C14_SecondRunBuildsSameDocument ==
    /\ fpc \in {"second", "done"} => res.config = arg.config
    /\ fpc = "done" => res.second = res.first

----------------------------------------------------------------------------
(* Properties of the Experience walk                                       *)

\* the elements of the document that render sibling j (separators in front
\* of a job heading render no sibling)
Renderings(j) ==
    {k \in 1..Len(res.doc) :
        res.doc[k].src = j /\ res.doc[k].kind \notin {"break", "line", "spacer"}}

\* C15: while the Experience section is processed, every sibling between
\* the h2 and the next h2 is rendered at most once, for every arrangement
\* of h3, h4, h5, h6, p and ul siblings.
C15_SiblingRenderedAtMostOnce ==
    \A j \in 1..Len(arg.nodes) : Cardinality(Renderings(j)) <= 1

\* siblings i and j belong to the same position: no h3 or h4 from i to j
SamePosition(nodes, i, j) ==
    \A k \in (i + 1)..j : nodes[k].tag \notin {"h3", "h4"}

\* C16: once the section is processed, two distinct siblings of the same
\* position with equal tag and equal content (two subsection headings, two
\* lists) are each rendered.
C16_EqualSiblingsEachRendered ==
    fpc = "done" =>
        \A i, j \in 1..(SectionEnd(arg.nodes) - 1) :
            (/\ i < j
             /\ arg.nodes[i] = arg.nodes[j]
             /\ \/ arg.nodes[i].tag = "ul"
                \/ arg.nodes[i].tag \in {"h5", "h6"} /\ arg.nodes[i].sub # "none"
             /\ SamePosition(arg.nodes, i, j))
            => Renderings(i) # {} /\ Renderings(j) # {}

\* the separator configured between two jobs: the rule of the two-column
\* cells, the spacer paragraph of space_before_h3, or nothing
ConfiguredSeparator ==
    IF arg.in_cell THEN "line"
    ELSE IF arg.space_before_h3 THEN "spacer"
    ELSE "none"

\* the kinds of the elements emitted in front of the heading of job i
SeparatorsBefore(i) ==
    {res.doc[k].kind : k \in {k \in 1..Len(res.doc) :
        res.doc[k].src = i /\ res.doc[k].kind \in {"break", "line", "spacer"}}}

\* C20: once the section is processed, a job entry preceded by a horizontal
\* rule has a page break and no separator in front of its heading; any
\* other job entry has the configured separator in front of its heading
\* when it is not the first job of the section, and nothing when it is.
C20_PageBreakOrConfiguredSeparator ==
    fpc = "done" =>
        \A i \in 1..(SectionEnd(arg.nodes) - 1) :
            arg.nodes[i].tag = "h3" =>
                LET first == \A k \in 1..(i - 1) : arg.nodes[k].tag # "h3"
                    expected ==
                        IF _has_hr_before_element(arg.nodes, i) THEN {"break"}
                        ELSE IF first \/ ConfiguredSeparator = "none" THEN {}
                        ELSE {ConfiguredSeparator}
                IN /\ SeparatorsBefore(i) = expected
                   /\ \A k \in 1..Len(res.doc) :
                         (res.doc[k].src = i /\ res.doc[k].kind \in expected)
                            => /\ k < Len(res.doc)
                               /\ res.doc[k + 1].kind = "heading"
                               /\ res.doc[k + 1].src = i

----------------------------------------------------------------------------
(* _process_projects_or_certifications: the walk under a Projects or       *)
(* Certifications h2                                                       *)

MaxCertNodes == 4   \* siblings after the Projects / Certifications h2

\* a sibling after the h2: its tag and whether it holds a strong or em child
CNode(tag, strong, em) == [tag |-> tag, strong |-> strong, em |-> em]

CertNodes ==
    { CNode("h3", FALSE, FALSE),
      CNode("h3", FALSE, TRUE),
      CNode("p", FALSE, FALSE),
      CNode("p", FALSE, TRUE),
      CNode("h4", TRUE, FALSE),
      CNode("blockquote", FALSE, FALSE),
      CNode("ul", FALSE, FALSE),
      CNode("h2", FALSE, FALSE),
      CNode("h2", FALSE, TRUE) }

\* an element appended to the document and the sibling whose content it shows
CEl(kind, src) == [kind |-> kind, src |-> src]

RECURSIVE AfterParagraphs(_, _)
\* lines 3018-3024: the first sibling from j on that is not a p
AfterParagraphs(nodes, j) ==
    IF j <= Len(nodes) /\ nodes[j].tag = "p"
    THEN AfterParagraphs(nodes, j + 1)
    ELSE j

\* lines 2999-3060: what the h3 at i appends: its heading, the paragraphs
\* that follow, then a blockquote, or an organisation element with strong
\* text and the em text of the sibling after it
CertEntryElements(nodes, i) ==
    LET j == AfterParagraphs(nodes, i + 1)
        org == j <= Len(nodes) /\ nodes[j].tag \in {"h4", "h5", "h6", "p"}
                  /\ nodes[j].strong
        dated == org /\ j + 1 <= Len(nodes) /\ nodes[j + 1].em
    IN <<CEl("heading", i)>>
       \o [k \in 1..(j - i - 1) |-> CEl("para", i + k)]
       \o (IF j <= Len(nodes) /\ nodes[j].tag = "blockquote"
           THEN <<CEl("quote", j)>>
           ELSE IF org
           THEN <<CEl("org", j)>>
                \o (IF dated THEN <<CEl("date", j + 1)>> ELSE <<>>)
           ELSE <<>>)

InitCerts ==
    /\ MainIdle
    /\ \E ns \in SeqsUpTo(CertNodes, MaxCertNodes) : arg = [nodes |-> ns]
    /\ res = [doc |-> <<>>, i |-> 1]
    /\ fpc = "walk"

CertAt(tags) ==
    /\ fpc = "walk"
    /\ res.i <= Len(arg.nodes)
    /\ arg.nodes[res.i].tag \in tags

\* the h3 branch of the loop, then on to the next sibling
CertEntry ==
    /\ CertAt({"h3"})
    /\ res' = [doc |-> res.doc \o CertEntryElements(arg.nodes, res.i),
               i |-> res.i + 1]
    /\ UNCHANGED <<mainVars, arg, fpc>>

\* any other sibling before the next h2: on to the next sibling
CertSkip ==
    /\ CertAt({"p", "h4", "blockquote", "ul"})
    /\ res' = [res EXCEPT !.i = @ + 1]
    /\ UNCHANGED <<mainVars, arg, fpc>>

\* the loop ends with the siblings or at the next h2
CertFinish ==
    /\ fpc = "walk"
    /\ IF res.i > Len(arg.nodes) THEN TRUE ELSE arg.nodes[res.i].tag = "h2"
    /\ fpc' = "done"
    /\ UNCHANGED <<mainVars, arg, res>>

NextCerts == CertEntry \/ CertSkip \/ CertFinish

SpecCerts == InitCerts /\ [][NextCerts]_vars

\* C19: every node whose content a section formatter emits lies strictly
\* between the section's h2 and the next h2 sibling: no walk goes past the
\* next h2 (here for the Projects and Certifications formatter).
C19_NothingEmittedPastNextH2 ==
    \A k \in 1..Len(res.doc) : res.doc[k].src < SectionEnd(arg.nodes)

----------------------------------------------------------------------------
(* JobSubsection: the descriptors of lines 60-80 and find_by_tag_and_text   *)

MaxHeadingPieces == 3

\* the members of the enumeration, in declaration order
JobSubsection ==
    << [name |-> "KEY_SKILLS", markdown_heading_level |-> "h5",
        markdown_text_lower |-> <<"k", "e", "y", " ", "s", "k", "i", "l", "l", "s">>],
       [name |-> "SUMMARY", markdown_heading_level |-> "h5",
        markdown_text_lower |-> <<"s", "u", "m", "m", "a", "r", "y">>],
       [name |-> "INTERNAL", markdown_heading_level |-> "h5",
        markdown_text_lower |-> <<"i", "n", "t", "e", "r", "n", "a", "l">>],
       [name |-> "PROJECT_CLIENT", markdown_heading_level |-> "h5",
        markdown_text_lower |->
            <<"p", "r", "o", "j", "e", "c", "t", "/", "c", "l", "i", "e", "n", "t">>],
       [name |-> "RESPONSIBILITIES", markdown_heading_level |-> "h6",
        markdown_text_lower |->
            <<"r", "e", "s", "p", "o", "n", "s", "i", "b", "i", "l", "i", "t", "i",
              "e", "s", " ", "o", "v", "e", "r", "v", "i", "e", "w">>],
       [name |-> "ADDITIONAL_DETAILS", markdown_heading_level |-> "h6",
        markdown_text_lower |->
            <<"a", "d", "d", "i", "t", "i", "o", "n", "a", "l", " ",
              "d", "e", "t", "a", "i", "l", "s">>],
       [name |-> "HIGHLIGHTS", markdown_heading_level |-> "h3",
        markdown_text_lower |->
            <<"h", "i", "g", "h", "l", "i", "g", "h", "t", "s">>] >>

\* str.lower() on the characters the headings below are written with
LowerChar(c) ==
    CASE c = "K" -> "k" [] c = "S" -> "s" [] c = "R" -> "r" [] c = "O" -> "o"
      [] OTHER -> c

Lower(text) == [i \in 1..Len(text) |-> LowerChar(text[i])]

\* s.split()[0] of a text that does not start with white space
FirstWord(s) == SubSeq(s, 1, RunEnd(s, 1, {c \in {s[i] : i \in 1..Len(s)} : c \notin Whitespace}))

\* a variant of the partial match that accepts the keyword only at the start
KeywordStartsText(keyword, text_lower) == StartsWithAt(text_lower, keyword, 1)

\* line 143: keyword in text_lower
KeywordIn(keyword, text_lower) == Find(text_lower, keyword) # 0

\* lines 107-146; the result is the member's name, or "None"
MatchIn(tag_name, text_lower) ==
    LET exact == {k \in 1..Len(JobSubsection) :
                     /\ JobSubsection[k].markdown_heading_level = tag_name
                     /\ text_lower = JobSubsection[k].markdown_text_lower}
        partial == {k \in 1..Len(JobSubsection) :
                       /\ JobSubsection[k].markdown_heading_level = tag_name
                       /\ KeywordIn(FirstWord(JobSubsection[k].markdown_text_lower),
                                    text_lower)}
    IN IF exact # {} THEN JobSubsection[Min(exact)].name
       ELSE IF tag_name \in {"h5", "h6"} /\ partial # {}
       THEN JobSubsection[Min(partial)].name
       ELSE "None"

\* line 118: text_lower = text.lower().strip() (the one-element set binds
\* it to its value)
find_by_tag_and_text(tag_name, text) ==
    CHOOSE r \in {MatchIn(tag_name, t) : t \in {Strip(Lower(text))}} : TRUE

\* what the heading texts handed to the lookup are made of
HeadingPieces ==
    { <<"k", "e", "y", " ", "s", "k", "i", "l", "l", "s">>,
      <<"K", "e", "y", " ", "S", "k", "i", "l", "l", "s">>,
      <<"k", "e", "y">>,
      <<"s", "u", "m", "m", "a", "r", "y">>,
      <<"S", "u", "m", "m", "a", "r", "y">>,
      <<"i", "n", "t", "e", "r", "n", "a", "l">>,
      <<"p", "r", "o", "j", "e", "c", "t", "/", "c", "l", "i", "e", "n", "t">>,
      <<"R", "e", "s", "p", "o", "n", "s", "i", "b", "i", "l", "i", "t", "i",
        "e", "s", " ", "O", "v", "e", "r", "v", "i", "e", "w">>,
      <<"r", "e", "s", "p", "o", "n", "s", "i", "b", "i", "l", "i", "t", "i",
        "e", "s">>,
      <<"a", "d", "d", "i", "t", "i", "o", "n", "a", "l", " ",
        "d", "e", "t", "a", "i", "l", "s">>,
      <<"a", "d", "d", "i", "t", "i", "o", "n", "a", "l">>,
      <<"h", "i", "g", "h", "l", "i", "g", "h", "t", "s">>,
      <<" ">>, <<"x">>, <<"(", "R", "e", "m", "o", "t", "e", ")">> }

HeadingTags == {"h3", "h4", "h5", "h6"}

InitSubsection ==
    /\ MainIdle
    /\ \E ps \in SeqsUpTo(HeadingPieces, MaxHeadingPieces), t \in HeadingTags :
          arg = [tag_name |-> t, text |-> Concat(ps)]
    /\ res = "pending"
    /\ fpc = "ready"

\* JobSubsection.find_by_tag_and_text(tag_name, text)
FindByTagAndText ==
    /\ fpc = "ready"
    /\ res' = find_by_tag_and_text(arg.tag_name, arg.text)
    /\ fpc' = "done"
    /\ UNCHANGED <<mainVars, arg>>

NextSubsection == FindByTagAndText

SpecSubsection == InitSubsection /\ [][NextSubsection]_vars

\* the descriptors with the tag and exactly the text
ExactMatches(tag_name, text) ==
    {k \in 1..Len(JobSubsection) :
        /\ JobSubsection[k].markdown_heading_level = tag_name
        /\ JobSubsection[k].markdown_text_lower = text}

\* the descriptor that was returned
Returned == CHOOSE k \in 1..Len(JobSubsection) : JobSubsection[k].name = res

\* C18 as stated: an exact tag and text match is returned whenever there is
\* one; otherwise, for h5 and h6 only, a descriptor of the same tag is
\* returned only if the heading text starts with the descriptor's first
\* keyword; otherwise none is returned.
C18_ExactThenKeywordPrefix ==
    fpc = "done" =>
        \A heading \in {Strip(Lower(arg.text))} :
            IF ExactMatches(arg.tag_name, heading) # {}
            THEN res # "None" /\ Returned \in ExactMatches(arg.tag_name, heading)
            ELSE IF arg.tag_name \in {"h5", "h6"}
            THEN res # "None" =>
                    /\ JobSubsection[Returned].markdown_heading_level = arg.tag_name
                    /\ StartsWithAt(heading,
                                    FirstWord(JobSubsection[Returned].markdown_text_lower), 1)
            ELSE res = "None"

\* the descriptors of the tag whose first keyword occurs somewhere in the text
KeywordMatches(tag_name, text) ==
    {k \in 1..Len(JobSubsection) :
        /\ JobSubsection[k].markdown_heading_level = tag_name
        /\ \E i \in 1..Len(text) :
              StartsWithAt(text, FirstWord(JobSubsection[k].markdown_text_lower), i)}

\* C18, amended: an exact tag and text match is returned whenever there is
\* one; otherwise, for h5 and h6 only, the result is the first descriptor in
\* declaration order of the same tag whose first keyword occurs anywhere in
\* the trimmed, lower-cased heading text, and none when there is no such
\* descriptor; for every other tag the result is none.
C18_ExactThenKeywordContained ==
    fpc = "done" =>
        \A heading \in {Strip(Lower(arg.text))} :
        \A exact \in {ExactMatches(arg.tag_name, heading)} :
        \A cont \in {KeywordMatches(arg.tag_name, heading)} :
            IF exact # {} THEN res # "None" /\ Returned \in exact
            ELSE IF arg.tag_name \in {"h5", "h6"} /\ cont # {}
            THEN res # "None" /\ Returned \in cont
                 /\ \A k \in cont : Returned <= k
            ELSE res = "None"

\* a heading without an exact match whose text holds the keyword of the
\* returned descriptor, but not at its start
C18_Witness ==
    /\ fpc = "done"
    /\ res # "None"
    /\ \E heading \in {Strip(Lower(arg.text))} :
          /\ ExactMatches(arg.tag_name, heading) = {}
          /\ ~StartsWithAt(heading,
                           FirstWord(JobSubsection[Returned].markdown_text_lower), 1)

----------------------------------------------------------------------------
(* Headings: HeadingsHelper, _add_heading_or_paragraph and the formatters  *)
(* that emit a heading                                                     *)

MaxHeadings == 2

NoLevel == 0 - 1    \* get_level_for_tag returned None
NoSize == 0         \* the run's font size was not set

TagOrder == <<"h1", "h2", "h3", "h4", "h5", "h6">>

\* config["paragraph_headings"] with every tag
FullHeadingMap ==
    [t \in {"h1", "h2", "h3", "h4", "h5", "h6"} |->
        CASE t = "h1" -> [level |-> 0, paragraph_heading_size |-> 16]
          [] t = "h2" -> [level |-> 1, paragraph_heading_size |-> 14]
          [] t = "h3" -> [level |-> 2, paragraph_heading_size |-> 13]
          [] t = "h4" -> [level |-> 3, paragraph_heading_size |-> 12]
          [] t = "h5" -> [level |-> 4, paragraph_heading_size |-> 10]
          [] OTHER -> [level |-> 5, paragraph_heading_size |-> 9]]

\* the same table, and the table of a configuration that leaves h6 out
HeadingMaps ==
    {FullHeadingMap, [t \in {"h1", "h2", "h3", "h4", "h5"} |-> FullHeadingMap[t]]}

\* lines 600-610: HeadingsHelper.should_use_paragraph_style; styled is the
\* set of tags paragraph_style_headings maps to True
should_use_paragraph_style(styled, tag_name) == tag_name \in styled

\* lines 622-635: HeadingsHelper.get_level_for_tag
get_level_for_tag(heading_map, tag_name) ==
    IF tag_name \in DOMAIN heading_map THEN heading_map[tag_name].level ELSE NoLevel

\* lines 637-653: HeadingsHelper.get_font_size_for_level, default_size 11
get_font_size_for_level(heading_map, heading_level) ==
    LET hits == {k \in 1..Len(TagOrder) :
                    /\ TagOrder[k] \in DOMAIN heading_map
                    /\ heading_map[TagOrder[k]].level = heading_level}
    IN IF hits = {} THEN 11
       ELSE heading_map[TagOrder[Min(hits)]].paragraph_heading_size

\* hasattr(document, "add_heading"): a Document has it, a table cell has not
has_add_heading(container) == container = "document"

\* an emitted heading: a native heading or a paragraph with one run
HEl(site, tag, kind, styled, bold, italic, font_size) ==
    [site |-> site, tag |-> tag, kind |-> kind, styled |-> styled,
     bold |-> bold, italic |-> italic, font_size |-> font_size]

Emitted(el) == [raised |-> "none", el |-> <<el>>]

Raised(exception) == [raised |-> exception, el |-> <<>>]

\* document.add_heading(text, level): a cell has no such method, and the
\* library compares the level with 0 and 9
add_heading(container, site, tag, heading_level) ==
    IF ~has_add_heading(container) THEN Raised("AttributeError")
    ELSE IF heading_level = NoLevel THEN Raised("TypeError")
    ELSE Emitted(HEl(site, tag, "heading", FALSE, FALSE, FALSE, NoSize))

\* lines 2857-2910, font_size is NoSize when the caller passes none
_add_heading_or_paragraph(container, heading_map, site, tag, heading_level, use_paragraph_style, bold, italic, font_size) ==
    IF use_paragraph_style \/ ~has_add_heading(container)
    THEN Emitted(HEl(site, tag, "paragraph", use_paragraph_style, bold, italic,
                     IF font_size = NoSize
                     THEN get_font_size_for_level(heading_map, heading_level)
                     ELSE font_size))
    ELSE add_heading(container, site, tag, heading_level)

\* the call of the formatters: level and style looked up for the tag, bold
\* and italic of the descriptor (bold by default), no font size
HeadingOf(container, heading_map, styled, site, tag, italic) ==
    _add_heading_or_paragraph(container, heading_map, site, tag,
                              get_level_for_tag(heading_map, tag),
                              should_use_paragraph_style(styled, tag),
                              TRUE, italic, NoSize)

\* lines 2516-2567 of _process_project_section: the h6 Responsibilities and
\* Additional Details headings inside a project block
ProjectH6Of(container, heading_map, styled, site) ==
    IF should_use_paragraph_style(styled, "h6")
    THEN Emitted(HEl(site, "h6", "paragraph", TRUE, TRUE, FALSE, NoSize))
    ELSE add_heading(container, site, "h6", get_level_for_tag(heading_map, "h6"))

\* lines 3179-3235: _create_heading_with_formatting_preservation for an
\* element whose only child is a text node or a strong element
_create_heading_with_formatting_preservation(container, heading_map, styled, site, tag, child) ==
    LET heading_level == get_level_for_tag(heading_map, tag)
        use_paragraph_style == should_use_paragraph_style(styled, tag)
    IN IF use_paragraph_style
       THEN Emitted(HEl(site, tag, "paragraph", TRUE, child = "strong", FALSE, NoSize))
       ELSE IF ~has_add_heading(container)
       THEN Emitted(HEl(site, tag, "paragraph", FALSE, TRUE, FALSE,
                        get_font_size_for_level(heading_map, heading_level)))
       ELSE IF heading_level = NoLevel THEN Raised("TypeError")
       ELSE Emitted(HEl(site, tag, "heading", FALSE, child = "strong", FALSE, NoSize))

InitHeadings ==
    /\ MainIdle
    /\ \E c \in {"document", "cell"}, m \in HeadingMaps,
          s \in SUBSET {"h2", "h3", "h4", "h5", "h6"} :
          arg = [container |-> c, heading_map |-> m, styled |-> s]
    /\ res = [doc |-> <<>>, raised |-> "none"]
    /\ fpc = "walk"

\* a formatter reaches a heading while nothing was raised
HeadingStep(r) ==
    /\ fpc = "walk"
    /\ res.raised = "none"
    /\ Len(res.doc) < MaxHeadings
    /\ res' = [doc |-> res.doc \o r.el, raised |-> r.raised]
    /\ UNCHANGED <<mainVars, arg, fpc>>

\* _prepare_section, lines 2234-2243
SectionHeading ==
    \E r \in {HeadingOf(arg.container, arg.heading_map, arg.styled, "section", "h2", FALSE)} :
        HeadingStep(r)

\* process_about_section, lines 1138-1155
HighlightsHeading ==
    \E r \in {HeadingOf(arg.container, arg.heading_map, arg.styled, "highlights", "h3", FALSE)} :
        HeadingStep(r)

\* _process_job_entry, lines 2643-2653
JobHeading ==
    \E r \in {HeadingOf(arg.container, arg.heading_map, arg.styled, "job", "h3", FALSE)} :
        HeadingStep(r)

\* _process_position, lines 2758-2767
PositionHeading ==
    \E r \in {HeadingOf(arg.container, arg.heading_map, arg.styled, "position", "h4", FALSE)} :
        HeadingStep(r)

\* process_experience_section and _process_subsection: Key Skills, Summary,
\* Internal (h5), Responsibilities and Additional Details (h6)
SubsectionHeading ==
    \E tag \in {"h5", "h6"} :
    \E r \in {HeadingOf(arg.container, arg.heading_map, arg.styled, "subsection", tag, FALSE)} :
        HeadingStep(r)

\* _process_project_section, lines 2475-2493: the Project/Client heading
ProjectHeading ==
    \E r \in {HeadingOf(arg.container, arg.heading_map, arg.styled, "project", "h5", TRUE)} :
        HeadingStep(r)

\* _process_project_section, lines 2516-2567
ProjectH6Heading ==
    \E r \in {ProjectH6Of(arg.container, arg.heading_map, arg.styled, "project_h6")} :
        HeadingStep(r)

\* _process_projects_or_certifications, lines 3001-3013
CertificationHeading ==
    \E r \in {HeadingOf(arg.container, arg.heading_map, arg.styled, "certification", "h3", FALSE)} :
        HeadingStep(r)

\* _process_project_or_certification_blockquote, lines 3099-3125
BlockquoteHeading ==
    \E tag \in {"h4", "h5", "h6"}, child \in {"text", "strong"} :
    \E r \in {_create_heading_with_formatting_preservation(
                  arg.container, arg.heading_map, arg.styled, "blockquote", tag, child)} :
        HeadingStep(r)

NextHeadings ==
    \/ SectionHeading
    \/ HighlightsHeading
    \/ JobHeading
    \/ PositionHeading
    \/ SubsectionHeading
    \/ ProjectHeading
    \/ ProjectH6Heading
    \/ CertificationHeading
    \/ BlockquoteHeading

SpecHeadings == InitHeadings /\ [][NextHeadings]_vars

\* the font size the heading-level table gives for a tag
TableSize(heading_map, tag) ==
    get_font_size_for_level(heading_map, get_level_for_tag(heading_map, tag))

\* the heading kinds C21 names
CellHeadingSites == {"section", "job", "position", "subsection", "project", "project_h6"}

\* C21: inside a table cell no heading is inserted natively: every section,
\* job, position, subsection and project heading, the h6 headings of a
\* project block included, is a bold paragraph with the font size of the
\* heading-level table, whether paragraph style is enabled for its tag or
\* not, and nothing is raised.
C21_CellHeadingsAreBoldSizedParagraphs ==
    arg.container = "cell" =>
        /\ res.raised = "none"
        /\ \A k \in 1..Len(res.doc) :
              res.doc[k].site \in CellHeadingSites =>
                 /\ res.doc[k].kind = "paragraph"
                 /\ res.doc[k].bold
                 /\ res.doc[k].font_size = TableSize(arg.heading_map, res.doc[k].tag)

\* C24: a heading rendered as a paragraph because paragraph style is enabled
\* for its tag has the font size the heading-level table gives for its
\* level, 11 when the level is not in the table (no formatter passes an
\* explicit size).
C24_ParagraphHeadingsTakeTableSize ==
    \A k \in 1..Len(res.doc) :
        (res.doc[k].kind = "paragraph" /\ res.doc[k].styled) =>
            res.doc[k].font_size = TableSize(arg.heading_map, res.doc[k].tag)

----------------------------------------------------------------------------
(* _process_project_or_certification_blockquote: the children of a         *)
(* certification or project blockquote                                     *)

MaxQuoteItems == 3

\* a child of the blockquote; two children with the same fields are equal
\* for the == of the parser's elements, wherever they stand
QNode(tag, text, strong, em) == [tag |-> tag, text |-> text, strong |-> strong, em |-> em]

QuoteNodes ==
    { QNode("h3", "A", FALSE, FALSE), QNode("h4", "A", FALSE, FALSE),
      QNode("h4", "B", FALSE, FALSE),
      QNode("p", "A", FALSE, FALSE), QNode("p", "A", TRUE, FALSE),
      QNode("p", "B", TRUE, FALSE), QNode("p", "A", FALSE, TRUE),
      QNode("ul", "A", FALSE, FALSE),
      QNode("str", "", FALSE, FALSE), QNode("str", "A", FALSE, FALSE) }

\* isinstance(item, str) and not item.strip()
BlankString(item) == item.tag = "str" /\ item.text = ""

\* lines 4105-4127: the position of the first h4, h5 or h6 or paragraph with
\* a strong child, 0 for None
_find_organization_element(items) ==
    LET hits == {i \in 1..Len(items) :
                    \/ items[i].tag \in {"h4", "h5", "h6"}
                    \/ items[i].tag = "p" /\ items[i].strong}
    IN IF hits = {} THEN 0 ELSE Min(hits)

\* an element added to the document for child src of the blockquote
QEl(kind, src) == [kind |-> kind, src |-> src]

\* lines 3096-3112: the organization element is rendered first
OrganizationElements(items, org) ==
    IF org = 0 THEN <<>>
    ELSE IF items[org].tag \in {"h4", "h5", "h6"} THEN <<QEl("heading", org)>>
    ELSE <<QEl("organization", org)>>

\* lines 3115-3152: one pass of the loop over blockquote.contents
ItemElements(items, org, i) ==
    LET item == items[i] IN
    IF (org # 0 /\ item = items[org]) \/ BlankString(item) THEN <<>>
    ELSE IF item.tag \in {"h3", "h4", "h5", "h6"} THEN <<QEl("heading", i)>>
    ELSE IF item.tag = "p"
    THEN (IF item.em THEN <<QEl("date", i)>> ELSE <<QEl("paragraph", i)>>)
    ELSE IF item.tag = "ul" THEN <<QEl("list", i)>>
    ELSE <<QEl("paragraph", i)>>

InitQuote ==
    /\ MainIdle
    /\ \E items \in SeqsUpTo(QuoteNodes, MaxQuoteItems) : arg = [items |-> items]
    /\ res = [doc |-> <<>>, i |-> 0, org |-> 0]
    /\ fpc = "organization"

\* lines 3095-3112
QuoteOrganization ==
    /\ fpc = "organization"
    /\ \E org \in {_find_organization_element(arg.items)} :
          res' = [doc |-> OrganizationElements(arg.items, org), i |-> 1, org |-> org]
    /\ fpc' = "items"
    /\ UNCHANGED <<mainVars, arg>>

\* lines 3115-3152, one item
QuoteItem ==
    /\ fpc = "items"
    /\ res.i <= Len(arg.items)
    /\ res' = [res EXCEPT !.doc = @ \o ItemElements(arg.items, res.org, res.i),
                          !.i = @ + 1]
    /\ UNCHANGED <<mainVars, arg, fpc>>

QuoteFinish ==
    /\ fpc = "items"
    /\ res.i > Len(arg.items)
    /\ fpc' = "done"
    /\ UNCHANGED <<mainVars, arg, res>>

NextQuote == QuoteOrganization \/ QuoteItem \/ QuoteFinish

SpecQuote == InitQuote /\ [][NextQuote]_vars

\* C22: the elements emitted for a blockquote follow the order of their
\* source children, and every non-blank child is rendered exactly once, also
\* a child that precedes the organization element or has its content.
C22_BlockquoteInOrderEachOnce ==
    fpc = "done" =>
        /\ \A j, k \in 1..Len(res.doc) : j < k => res.doc[j].src < res.doc[k].src
        /\ \A i \in 1..Len(arg.items) :
              ~BlankString(arg.items[i]) =>
                  Cardinality({k \in 1..Len(res.doc) : res.doc[k].src = i}) = 1

----------------------------------------------------------------------------
(* The containers of create_ats_resume from one step to the next           *)

\* s is a prefix of t, element for element
IsPrefix(s, t) == Len(s) <= Len(t) /\ SubSeq(t, 1, Len(s)) = s

\* C23: the output is append-only in both layouts: after every step the
\* elements emitted so far are a prefix of the elements after the next step,
\* each with the content and formatting it was appended with.
C23_OutputIsAppendOnly ==
    [][\A c \in Containers : IsPrefix(out[c], out'[c])]_vars

----------------------------------------------------------------------------
(* The space after a Key Skills subsection of the Experience walk          *)

\* the first h3-h6 sibling after i and before the end of the section, 0 when
\* there is none
NextHeadingInSection(nodes, i) ==
    LET hs == {j \in (i + 1)..(SectionEnd(nodes) - 1) :
                  nodes[j].tag \in {"h3", "h4", "h5", "h6"}}
    IN IF hs = {} THEN 0 ELSE Min(hs)

\* the last element the Key Skills branch appended for the heading at k: the
\* skills paragraph when one follows, else the heading
KeySkillsLast(k) ==
    IF k < Len(res.doc) /\ res.doc[k + 1].kind = "skills"
       /\ res.doc[k + 1].src = res.doc[k].src + 1
    THEN k + 1 ELSE k

\* vertical space was appended right behind the Key Skills subsection at k
SpaceAfterKeySkills(k) ==
    /\ KeySkillsLast(k) < Len(res.doc)
    /\ res.doc[KeySkillsLast(k) + 1].kind = "spacer"
    /\ res.doc[KeySkillsLast(k) + 1].src = res.doc[k].src

\* C25: after a Key Skills subsection of Experience, vertical space is
\* appended when no heading follows before the end of the section or when
\* the next heading is an h4, and is not appended when the next heading is
\* an h5 or h6; only headings inside the section count.
C25_SpaceAfterKeySkillsByNextHeading ==
    \A k \in 1..Len(res.doc) :
        (/\ res.doc[k].kind = "heading"
         /\ arg.nodes[res.doc[k].src].sub = "key_skills"
         /\ res.i > res.doc[k].src) =>
            \A nh \in {NextHeadingInSection(arg.nodes, res.doc[k].src)} :
                /\ (nh = 0 \/ (nh # 0 /\ arg.nodes[nh].tag = "h4"))
                      => SpaceAfterKeySkills(k)
                /\ (nh # 0 /\ arg.nodes[nh].tag \in {"h5", "h6"})
                      => ~SpaceAfterKeySkills(k)

----------------------------------------------------------------------------
(* What the Experience walk renders of its section                         *)

\* sibling j is the location paragraph that _process_position merged into
\* the date paragraph before it
MergedIntoDate(j) ==
    /\ j >= 3
    /\ arg.nodes[j - 2].tag = "h4"
    /\ Emphasised(arg.nodes, j - 1) /\ Emphasised(arg.nodes, j)
    /\ \E k \in 1..Len(res.doc) :
          /\ res.doc[k].src = j - 1
          /\ res.doc[k].text = StripMarkers(arg.nodes[j - 1].text)
                                  \o <<" ", "/", " ">>
                                  \o StripMarkers(arg.nodes[j].text)

\* C26: when the Experience walk has finished, every paragraph, list and
\* h3-h6 heading between the section's h2 and the next h2 was rendered at
\* least once, also a plain paragraph after a position heading, a single
\* emphasised paragraph after an h4 and an h5 or h6 that matches no
\* subsection descriptor.
C26_NoExperienceContentDropped ==
    fpc = "done" =>
        \A j \in 1..(SectionEnd(arg.nodes) - 1) :
            arg.nodes[j].tag \in {"p", "ul", "h3", "h4", "h5", "h6"} =>
                Renderings(j) # {} \/ MergedIntoDate(j)

----------------------------------------------------------------------------
(* The header among the output of create_ats_resume                        *)

\* the positions of the name title in container c
TitlesIn(c) == {i \in 1..Len(out[c]) : out[c][i].kind = "title"}

\* C27: for every configured set and order of sections and every markdown
\* with an h1, the header is emitted exactly once and before the output of
\* every section: no section element exists without the title in front of
\* it, and a finished run holds exactly one title.
C27_HeaderOnceBeforeEverySection ==
    HasH1(md) =>
        /\ \A c \in Containers : \A i \in 1..Len(out[c]) :
              out[c][i].sec \in Keys =>
                 /\ TitlesIn("doc") # {}
                 /\ c = "doc" => \E t \in TitlesIn("doc") : t < i
        /\ pc = "done" =>
              /\ Cardinality(TitlesIn("doc")) = 1
              /\ \A c \in Containers \ {"doc"} : TitlesIn(c) = {}

----------------------------------------------------------------------------
(* The sidebar of the two-column layout                                    *)

SidebarKeys == {"skills", "certifications", "education"}

\* the sidebar sections the configuration declares
ConfiguredSidebar == {k \in SidebarKeys : get_section(config, k)}

\* the positions of the separator lines in the sidebar cell
SidebarLines == {i \in 1..Len(out["sidebar"]) : out["sidebar"][i].kind = "line"}

\* C28: in the two-column layout, for every subset of skills, certifications
\* and education in the configuration, building the sidebar raises nothing,
\* and a finished run has exactly one separator line between consecutive
\* sidebar sections, none before the first or after the last.
C28_SidebarBuiltWithOneLineBetween ==
    twoCol =>
        /\ raisedBy # "sidebar"
        /\ pc = "done" =>
              /\ Cardinality(SidebarLines) =
                    IF ConfiguredSidebar = {} THEN 0
                    ELSE Cardinality(ConfiguredSidebar) - 1
              /\ ConfiguredSidebar \subseteq PresentIn(md) =>
                    /\ 1 \notin SidebarLines
                    /\ Len(out["sidebar"]) \notin SidebarLines
                    /\ \A i \in SidebarLines : i + 1 \notin SidebarLines

----------------------------------------------------------------------------
(* The configuration singletons: ResumeSection, ConfigHelper and           *)
(* HeadingsHelper hold their configuration in class attributes             *)

MaxReads == 2

Conversions == {1, 2}

ConfigIds == {"A", "B"}

\* two create_ats_resume calls, each with its own configuration, run one
\* after the other or on two threads of the process
InitSingletons ==
    /\ MainIdle
    /\ \E mode \in {"sequential", "threads"}, conf \in [Conversions -> ConfigIds] :
          arg = [mode |-> mode, conf |-> conf]
    /\ res = [sections |-> "none", config |-> "none", headings |-> "none",
              tpc |-> [t \in Conversions |-> "start"],
              reads |-> [t \in Conversions |-> 0],
              seen |-> [t \in Conversions |-> {}]]
    /\ fpc = "run"

\* conversion t may take a step: the second of two sequential calls starts
\* when the first has returned
MayStep(t) == arg.mode = "threads" \/ t = 1 \/ res.tpc[1] = "done"

\* line 712: ResumeSection.init_from_config(config_loader.resume_sections)
InitFromConfig ==
    \E t \in Conversions :
        /\ MayStep(t) /\ res.tpc[t] = "start"
        /\ res' = [res EXCEPT !.sections = arg.conf[t], !.tpc[t] = "sections"]
        /\ UNCHANGED <<mainVars, arg, fpc>>

\* line 715 and lines 494-502: ConfigHelper.init(config_loader.config)
ConfigHelperInit ==
    \E t \in Conversions :
        /\ MayStep(t) /\ res.tpc[t] = "sections"
        /\ res' = [res EXCEPT !.config = arg.conf[t], !.tpc[t] = "config"]
        /\ UNCHANGED <<mainVars, arg, fpc>>

\* line 716 and lines 585-597: HeadingsHelper.init(config, options)
HeadingsHelperInit ==
    \E t \in Conversions :
        /\ MayStep(t) /\ res.tpc[t] = "config"
        /\ res' = [res EXCEPT !.headings = arg.conf[t], !.tpc[t] = "formatting"]
        /\ UNCHANGED <<mainVars, arg, fpc>>

\* conversion t is in its formatters and has reads left
Formatting(t) ==
    MayStep(t) /\ res.tpc[t] = "formatting" /\ res.reads[t] < MaxReads

\* a formatter of conversion t reads helper h and gets the class attribute
ReadBy(t, h, value) ==
    /\ res' = [res EXCEPT !.reads[t] = @ + 1,
                          !.seen[t] = @ \cup {<<h, value>>}]
    /\ UNCHANGED <<mainVars, arg, fpc>>

\* ResumeSection.get_section / get_ordered_sections, lines 228-250
ReadResumeSection ==
    \E t \in Conversions : Formatting(t) /\ ReadBy(t, "ResumeSection", res.sections)

\* ConfigHelper.get_style_constant and the other getters, lines 503-562
ReadConfigHelper ==
    \E t \in Conversions : Formatting(t) /\ ReadBy(t, "ConfigHelper", res.config)

\* HeadingsHelper.should_use_paragraph_style, get_level_for_tag, ...
ReadHeadingsHelper ==
    \E t \in Conversions : Formatting(t) /\ ReadBy(t, "HeadingsHelper", res.headings)

\* create_ats_resume returns
ConversionReturns ==
    \E t \in Conversions :
        /\ MayStep(t) /\ res.tpc[t] = "formatting"
        /\ res' = [res EXCEPT !.tpc[t] = "done"]
        /\ UNCHANGED <<mainVars, arg, fpc>>

NextSingletons ==
    \/ InitFromConfig
    \/ ConfigHelperInit
    \/ HeadingsHelperInit
    \/ ReadResumeSection
    \/ ReadConfigHelper
    \/ ReadHeadingsHelper
    \/ ConversionReturns

SpecSingletons == InitSingletons /\ [][NextSingletons]_vars

\* C29: every value a formatter reads through ResumeSection, ConfigHelper or
\* HeadingsHelper is the one of the configuration passed to its own
\* create_ats_resume call, for conversions run one after another and for
\* conversions that interleave on two threads.
C29_ReadsOwnConfiguration ==
    \A t \in Conversions : \A s \in res.seen[t] : s[2] = arg.conf[t]

----------------------------------------------------------------------------
(* API boundary (src/src/api.py): the convert endpoints and App.post       *)

MaxBody == 2

\* texts of at most MaxBody characters: a raw markdown body or the content
\* of an uploaded file
BodyTexts == UNION {[1..n -> {"#", " "}] : n \in 0..MaxBody}

NoFile == [present |-> FALSE, text |-> <<>>]

UploadedFiles == {[present |-> TRUE, text |-> t] : t \in BodyTexts \ {<<>>}}

\* what one POST carries: the endpoint, the prefer_file setting of the API
\* configuration, the content type with either a raw text payload
\* (text/plain) or form parts (multipart/form-data, the only content type
\* that can hold an uploaded input_file), and the config_options argument
PostRequests ==
    {r \in [endpoint : {"docx", "pdf"},
            prefer_file : BOOLEAN,
            ctype : {"text/plain", "multipart/form-data"},
            input_file : {NoFile} \cup UploadedFiles,
            payload : BodyTexts,
            config_options : {"None", "json", "not json"}] :
        /\ r.ctype = "text/plain" => r.input_file = NoFile
        /\ r.ctype = "multipart/form-data" => r.payload = <<>>}

\* the raw bytes of a multipart/form-data body: every part between
\* delimiter lines, closed by the final delimiter
MultipartBody(r) ==
    (IF r.input_file.present
     THEN <<"--boundary", "name=input_file">> \o r.input_file.text
     ELSE <<>>)
    \o <<"--boundary--">>

\* request.get_data(as_text=True): the whole raw request body as a string,
\* read before any form parsing; never None
get_data(r) ==
    IF r.ctype = "multipart/form-data" THEN MultipartBody(r) ELSE r.payload

\* self._arg_parser.parse_args()["input_file"]: the uploaded file or None
ParsedInputFile(r) == r.input_file

\* input_file is not None and (prefer_file or request_body is None)
use_file_input(r, request_body_is_none) ==
    r.input_file.present /\ (r.prefer_file \/ request_body_is_none)

post_error(code, message) == [kind |-> "json", code |-> code, message |-> message]

InitPost ==
    /\ MainIdle
    /\ arg \in PostRequests
    /\ res = [request_body |-> <<>>, output_format |-> "none",
              use_file |-> FALSE, source |-> "none", input |-> <<>>,
              response |-> [kind |-> "pending", code |-> 0, message |-> ""]]
    /\ fpc = "request"

\* ConvertDocxResource.post / ConvertPdfResource.post:
\*   content = request.get_data(as_text=True)
\*   return app.post(output_format=..., request_body=content)
ResourcePost ==
    /\ fpc = "request"
    /\ res' = [res EXCEPT !.request_body = get_data(arg),
                          !.output_format = arg.endpoint]
    /\ fpc' = "select"
    /\ UNCHANGED <<mainVars, arg>>

\* App.post, lines 524-547: choose the input source; with neither a usable
\* file nor a truthy body answer 400 "No input provided"
SelectInput ==
    /\ fpc = "select"
    /\ LET use == use_file_input(arg, FALSE)
       IN IF ~use /\ res.request_body = <<>>
          THEN /\ res' = [res EXCEPT !.response =
                              post_error(400, "No input provided")]
               /\ fpc' = "done"
          ELSE /\ res' = [res EXCEPT !.use_file = use]
               /\ fpc' = "config"
    /\ UNCHANGED <<mainVars, arg>>

\* App.post, lines 558-568: json.loads(args["config_options"])
ParseConfigOptions ==
    /\ fpc = "config"
    /\ IF arg.config_options = "not json"
       THEN /\ res' = [res EXCEPT !.response =
                           post_error(400, "Invalid JSON in config_options parameter")]
            /\ fpc' = "done"
       ELSE /\ fpc' = "write"
            /\ UNCHANGED res
    /\ UNCHANGED <<mainVars, arg>>

\* App.post, lines 574-595: input_file.save(temp_input_path) or
\* f.write(request_body)
WriteInput ==
    /\ fpc = "write"
    /\ res' = IF res.use_file
              THEN [res EXCEPT !.source = "file",
                               !.input = ParsedInputFile(arg).text]
              ELSE [res EXCEPT !.source = "body",
                               !.input = res.request_body]
    /\ fpc' = "respond"
    /\ UNCHANGED <<mainVars, arg>>

\* App.post, lines 600-605: return self._response(...), a file download or
\* the error payload of a failed conversion
PostRespond ==
    /\ fpc = "respond"
    /\ \E r \in {[kind |-> "file", code |-> 200, message |-> ""],
                 post_error(400, "Error")} :
          res' = [res EXCEPT !.response = r]
    /\ fpc' = "done"
    /\ UNCHANGED <<mainVars, arg>>

NextPost ==
    \/ ResourcePost \/ SelectInput \/ ParseConfigOptions \/ WriteInput
    \/ PostRespond

SpecPost == InitPost /\ [][NextPost]_vars

\* the request names no raw markdown body: its body is not a text payload
NoRawMarkdownBody == arg.ctype = "multipart/form-data" \/ arg.payload = <<>>

\* C30: a POST that carries an uploaded input_file is never answered with
\* "No input provided", whatever prefer_file and the body are; when no raw
\* markdown body is supplied the uploaded file is the conversion input; and
\* "No input provided" is answered only when there is neither an uploaded
\* file nor a non-empty body.
C30_UploadedFileIsAlwaysAnInput ==
    /\ arg.input_file.present =>
          res.response.message # "No input provided"
    /\ (arg.input_file.present /\ NoRawMarkdownBody /\ res.source # "none") =>
          res.source = "file" /\ res.input = arg.input_file.text
    /\ res.response.message = "No input provided" =>
          ~arg.input_file.present /\ get_data(arg) = <<>>

====
